---- MODULE Spec2Model ----
(***************************************************************************)
(* Input mapping of the drill engine: lib_input (Button, Value, Mapper)    *)
(* and the older handlers (ButtonHandler, ValueHandler, StickHandler,      *)
(* InputHandler).                                                          *)
(*                                                                         *)
(* f32 magnitudes of gamepad events are integers in thousandths (1000 is   *)
(* 1.0).  A mapped Value is an integer in 255ths (255 is 1.0), which is    *)
(* the exact sum of the terms slot/255.0.                                  *)
(***************************************************************************)
EXTENDS Integers, Sequences, FiniteSets, TLC

\* Largest number of events delivered between two mapping calls: to the
\* control bound to a single key, and to every other configuration.
MaxKeyEvents == 4
MaxEvents == 3

\* Largest binding set whose every iteration order is tried; a larger set
\* is iterated in the order of CodeOrder and in the reverse of it.
MaxPermuted == 3

\* The divisor of `x as f32 / 255.0` and the factor of `*value * 255.0`:
\* 1.0 of a mapped Value, in 255ths.
ValueOne == 255

\* `*value >= 0.5`, in thousandths.
HALF == 500

\* MIN_DOT (STICK_DIR_DOT in the older ButtonHandler), in ten-thousandths.
MIN_DOT == 3827

\* The length of bindings_values ([u8; 32]) and the width of held_bindings.
NumSlots == 32

KeyCode == {"Space", "KeyC", "KeyX", "ArrowRight", "ArrowLeft"}

StickButtonCode ==
    {"LeftStickRight", "LeftStickLeft", "LeftStickUp", "LeftStickDown",
     "RightStickRight", "RightStickLeft", "RightStickUp", "RightStickDown"}

OrdinaryButtonCode ==
    {"DPadUp", "DPadDown", "DPadLeft", "DPadRight", "South", "East", "North",
     "West", "LeftTrigger", "LeftTrigger2", "RightTrigger", "RightTrigger2",
     "Start", "Select", "LeftThumb", "RightThumb", "C", "Z", "Mode", "Unknown"}

ButtonCode == StickButtonCode \cup OrdinaryButtonCode

\* ---------------------------------------------------------------------
\* Events.  One record shape for every event; unused fields hold "-" / 0.
\* A physical key that is not PhysicalKey::Code(_) is "Unidentified".
\* ---------------------------------------------------------------------
Connected == [type |-> "Connected", key |-> "-", pressed |-> FALSE, button |-> "-", value |-> 0]
Disconnected == [type |-> "Disconnected", key |-> "-", pressed |-> FALSE, button |-> "-", value |-> 0]
CloseRequested == [type |-> "CloseRequested", key |-> "-", pressed |-> FALSE, button |-> "-", value |-> 0]
Key(k, p) == [type |-> "Key", key |-> k, pressed |-> p, button |-> "-", value |-> 0]
ButtonEvent(b, v) == [type |-> "Button", key |-> "-", pressed |-> FALSE, button |-> b, value |-> v]

\* ---------------------------------------------------------------------
\* Vectors.  A direction is kept as (x, y, len2): the vector (x, y)
\* divided by sqrt(len2).  ZERO is (0, 0) over 1.
\* ---------------------------------------------------------------------
ZERO == [x |-> 0, y |-> 0, len2 |-> 1]
RIGHT == [x |-> 1, y |-> 0]
LEFT == [x |-> -1, y |-> 0]
UP == [x |-> 0, y |-> 1]
DOWN == [x |-> 0, y |-> -1]

\* vec2!(x, y).try_normalize().unwrap_or(Vec2::ZERO)
NormalizeOrZero(x, y) ==
    IF x = 0 /\ y = 0 THEN ZERO ELSE [x |-> x, y |-> y, len2 |-> x * x + y * y]

\* a/b >= c/d for a, c >= 0 and b, d > 0, by comparing the integer parts
\* and then the reciprocals of the fractional parts (every intermediate
\* value stays below 2^31).
RECURSIVE FracGe(_, _, _, _)
FracGe(a, b, c, d) ==
    IF a \div b # c \div d THEN a \div b > c \div d
    ELSE IF c % d = 0 THEN TRUE
    ELSE IF a % b = 0 THEN FALSE
    ELSE FracGe(d, c % d, b, a % b)

\* dir.dot(axis) >= MIN_DOT, for a direction dir and a unit axis:
\* n / sqrt(len2) >= MIN_DOT / 10000 with n = dir.x*axis.x + dir.y*axis.y,
\* that is n > 0 and n*n / len2 >= MIN_DOT*MIN_DOT / 10000^2.
DotAtLeastMinDot(dir, axis) ==
    LET n == dir.x * axis.x + dir.y * axis.y
    IN  n > 0 /\ FracGe(n * n, dir.len2, MIN_DOT * MIN_DOT, 10000 * 10000)

\* ---------------------------------------------------------------------
\* held_bindings (u32) is kept as the set of its one bits: 0 is {}, and
\* bit idx is set iff idx is in the set.
\* ---------------------------------------------------------------------
NoBits == {}

\* `1 << idx` as a u32 when the shift does not trap: the shift amount is
\* taken modulo the width.
BindingBit(idx) == idx % NumSlots

\* held_bindings & binding_mask != 0, with binding_mask = 1 << idx
TestBit(mask, idx) == BindingBit(idx) \in mask

\* (held_bindings & !binding_mask) | (binding_mask * is_held as u32)
WithBit(mask, idx, is_held) ==
    (mask \ {BindingBit(idx)}) \cup (IF is_held THEN {BindingBit(idx)} ELSE {})

\* The key codes and the button codes in one fixed order (the buttons in
\* the order of the enum).
CodeOrder ==
    << "Space", "KeyC", "KeyX", "ArrowRight", "ArrowLeft",
       "LeftStickRight", "LeftStickLeft", "LeftStickUp", "LeftStickDown",
       "RightStickRight", "RightStickLeft", "RightStickUp", "RightStickDown",
       "DPadUp", "DPadDown", "DPadLeft", "DPadRight", "South", "East", "North",
       "West", "LeftTrigger", "LeftTrigger2", "RightTrigger", "RightTrigger2",
       "Start", "Select", "LeftThumb", "RightThumb", "C", "Z", "Mode", "Unknown" >>

InCodeOrder(S) == SelectSeq(CodeOrder, LAMBDA c : c \in S)

Reverse(s) == [i \in 1..Len(s) |-> s[Len(s) + 1 - i]]

\* The orders in which a HashSet can be iterated.
Orders(S) ==
    IF Cardinality(S) <= MaxPermuted
    THEN {f \in [1..Cardinality(S) -> S] :
            \A i, j \in 1..Cardinality(S) : f[i] = f[j] => i = j}
    ELSE {InCodeOrder(S), Reverse(InCodeOrder(S))}

Range(f) == {f[i] : i \in DOMAIN f}
IndexOf(f, e) == CHOOSE i \in DOMAIN f : f[i] = e

\* ---------------------------------------------------------------------
\* lib_input: Button
\* ---------------------------------------------------------------------
\* Button_new_mapper with the buttons numbered from 0 like the keys.
Button_new_mapper_NoOffset(keys_iter, buttons_iter) ==
    [kind |-> "Button",
     key_indices |-> [k \in Range(keys_iter) |-> (IndexOf(keys_iter, k) - 1) % 256],
     button_indices |->
        [b \in Range(buttons_iter) |-> (IndexOf(buttons_iter, b) - 1) % 256],
     held_bindings |-> NoBits,
     is_pressed |-> FALSE,
     was_held |-> FALSE]

\* keys_iter and buttons_iter are the iteration orders of bindings.keys and
\* bindings.buttons.
Button_new_mapper(keys_iter, buttons_iter) ==
    [kind |-> "Button",
     key_indices |-> [k \in Range(keys_iter) |-> (IndexOf(keys_iter, k) - 1) % 256],
     button_indices |->
        [b \in Range(buttons_iter) |->
            ((IndexOf(buttons_iter, b) - 1) + Len(keys_iter)) % 256],
     held_bindings |-> NoBits,
     is_pressed |-> FALSE,
     was_held |-> FALSE]

\* Button_is_held with the threshold on the value alone, for every code.
Button_is_held_NoCone(button, value, ctx) == value >= HALF

\* The match on the button code of Button::mapper_event.
Button_is_held(button, value, ctx) ==
    CASE button \in OrdinaryButtonCode -> value >= HALF
      [] button = "LeftStickRight" -> value >= HALF /\ DotAtLeastMinDot(ctx.left_stick_dir, RIGHT)
      [] button = "LeftStickLeft" -> value >= HALF /\ DotAtLeastMinDot(ctx.left_stick_dir, LEFT)
      [] button = "LeftStickUp" -> value >= HALF /\ DotAtLeastMinDot(ctx.left_stick_dir, UP)
      [] button = "LeftStickDown" -> value >= HALF /\ DotAtLeastMinDot(ctx.left_stick_dir, DOWN)
      [] button = "RightStickRight" -> value >= HALF /\ DotAtLeastMinDot(ctx.right_stick_dir, RIGHT)
      [] button = "RightStickLeft" -> value >= HALF /\ DotAtLeastMinDot(ctx.right_stick_dir, LEFT)
      [] button = "RightStickUp" -> value >= HALF /\ DotAtLeastMinDot(ctx.right_stick_dir, UP)
      [] button = "RightStickDown" -> value >= HALF /\ DotAtLeastMinDot(ctx.right_stick_dir, DOWN)

\* Button_set_binding with the latch set by every event that reports the
\* slot held.
Button_set_binding_LatchOnLevel(handler, binding_idx, is_held) ==
    [handler EXCEPT
        !.is_pressed = IF is_held THEN TRUE ELSE @,
        !.held_bindings = WithBit(@, binding_idx, is_held)]

\* Button_set_binding with the latch set only when no slot at all was held.
Button_set_binding_SetLevelEdge(handler, binding_idx, is_held) ==
    [handler EXCEPT
        !.is_pressed = IF is_held /\ handler.held_bindings = NoBits THEN TRUE ELSE @,
        !.held_bindings = WithBit(@, binding_idx, is_held)]

\* Button_set_binding with the latch overwritten by every event.
Button_set_binding_OverwriteLatch(handler, binding_idx, is_held) ==
    [handler EXCEPT
        !.is_pressed = is_held /\ ~TestBit(handler.held_bindings, binding_idx),
        !.held_bindings = WithBit(@, binding_idx, is_held)]

\* The tail of Button::mapper_event: latch the rising edge of the slot, then
\* write the slot's bit.
Button_set_binding(handler, binding_idx, is_held) ==
    LET binding_was_held == TestBit(handler.held_bindings, binding_idx)
    IN  [handler EXCEPT
            !.is_pressed = IF is_held /\ ~binding_was_held THEN TRUE ELSE @,
            !.held_bindings = WithBit(@, binding_idx, is_held)]

\* Button_mapper_event with every slot released by an event that names no
\* bound source.
Button_mapper_event_UnboundReleases(handler, event, ctx) ==
    CASE event.type = "Connected" -> [handler EXCEPT !.held_bindings = NoBits]
      [] event.type = "Disconnected" -> [handler EXCEPT !.held_bindings = NoBits]
      [] event.type = "Key" ->
            IF event.key \in KeyCode /\ event.key \in DOMAIN handler.key_indices
            THEN Button_set_binding(handler, handler.key_indices[event.key], event.pressed)
            ELSE [handler EXCEPT !.held_bindings = NoBits]
      [] event.type = "Button" ->
            IF event.button \in DOMAIN handler.button_indices
            THEN Button_set_binding(handler, handler.button_indices[event.button],
                                    Button_is_held(event.button, event.value, ctx))
            ELSE [handler EXCEPT !.held_bindings = NoBits]
      [] OTHER -> handler

\* Button_mapper_event with the press latch cleared by Disconnected too.
Button_mapper_event_DisconnectClearsLatch(handler, event, ctx) ==
    CASE event.type = "Connected" -> handler
      [] event.type = "Disconnected" ->
            [handler EXCEPT !.held_bindings = NoBits, !.is_pressed = FALSE]
      [] event.type = "Key" ->
            IF event.key \in KeyCode /\ event.key \in DOMAIN handler.key_indices
            THEN Button_set_binding(handler, handler.key_indices[event.key], event.pressed)
            ELSE handler
      [] event.type = "Button" ->
            IF event.button \in DOMAIN handler.button_indices
            THEN Button_set_binding(handler, handler.button_indices[event.button],
                                    Button_is_held(event.button, event.value, ctx))
            ELSE handler
      [] OTHER -> handler

\* Button_mapper_event with Disconnected ignored like Connected.
Button_mapper_event_IgnoreDisconnect(handler, event, ctx) ==
    CASE event.type = "Key" ->
            IF event.key \in KeyCode /\ event.key \in DOMAIN handler.key_indices
            THEN Button_set_binding(handler, handler.key_indices[event.key], event.pressed)
            ELSE handler
      [] event.type = "Button" ->
            IF event.button \in DOMAIN handler.button_indices
            THEN Button_set_binding(handler, handler.button_indices[event.button],
                                    Button_is_held(event.button, event.value, ctx))
            ELSE handler
      [] OTHER -> handler

Button_mapper_event(handler, event, ctx) ==
    CASE event.type = "Connected" -> handler
      [] event.type = "Disconnected" -> [handler EXCEPT !.held_bindings = NoBits]
      [] event.type = "Key" ->
            IF event.key \in KeyCode /\ event.key \in DOMAIN handler.key_indices
            THEN Button_set_binding(handler, handler.key_indices[event.key], event.pressed)
            ELSE handler
      [] event.type = "Button" ->
            IF event.button \in DOMAIN handler.button_indices
            THEN Button_set_binding(handler, handler.button_indices[event.button],
                                    Button_is_held(event.button, event.value, ctx))
            ELSE handler
      [] OTHER -> handler

\* Button_map_result with is_released not looking at was_held.
Button_map_result_NoWasHeld(handler) ==
    [is_held |-> handler.held_bindings # NoBits,
     is_pressed |-> handler.is_pressed,
     is_released |-> handler.held_bindings = NoBits]

\* Button_map_state with the latch left as it is.
Button_map_state_KeepLatch(handler) ==
    [handler EXCEPT !.was_held = handler.held_bindings # NoBits]

\* Button::map: the returned Button and the handler after the call.
Button_map_result(handler) ==
    [is_held |-> handler.held_bindings # NoBits,
     is_pressed |-> handler.is_pressed,
     is_released |-> handler.was_held /\ handler.held_bindings = NoBits]

Button_map_state(handler) ==
    [handler EXCEPT !.was_held = Button_map_result(handler).is_held,
                    !.is_pressed = FALSE]

\* ---------------------------------------------------------------------
\* lib_input: Value
\* ---------------------------------------------------------------------
\* Value_new_mapper with the gamepad buttons numbered from 0 like the keys.
Value_new_mapper_NoOffset(keys_iter, buttons_iter) ==
    [kind |-> "Value",
     key_indices |-> [k \in Range(keys_iter) |-> (IndexOf(keys_iter, k) - 1) % 256],
     button_indices |->
        [b \in Range(buttons_iter) |-> (IndexOf(buttons_iter, b) - 1) % 256],
     bindings_values |-> [i \in 0..(NumSlots - 1) |-> 0]]

Value_new_mapper(keys_iter, buttons_iter) ==
    [kind |-> "Value",
     key_indices |-> [k \in Range(keys_iter) |-> (IndexOf(keys_iter, k) - 1) % 256],
     button_indices |->
        [b \in Range(buttons_iter) |->
            ((IndexOf(buttons_iter, b) - 1) + Len(keys_iter)) % 256],
     bindings_values |-> [i \in 0..(NumSlots - 1) |-> 0]]

\* `(*value * 255.0) as u8`: the product truncated toward zero, saturated
\* to 0..255.
F32ToU8(value) ==
    LET t == (value * ValueOne) \div 1000
    IN  IF t < 0 THEN 0 ELSE IF t > 255 THEN 255 ELSE t

\* Value_mapper_event with Disconnected ignored like Connected.
Value_mapper_event_IgnoreDisconnect(handler, event, ctx) ==
    CASE event.type = "Key" ->
            IF event.key \in KeyCode /\ event.key \in DOMAIN handler.key_indices
            THEN [handler EXCEPT
                    !.bindings_values[handler.key_indices[event.key]] =
                        IF event.pressed THEN 255 ELSE 0]
            ELSE handler
      [] event.type = "Button" ->
            IF event.button \in DOMAIN handler.button_indices
            THEN [handler EXCEPT
                    !.bindings_values[handler.button_indices[event.button]] =
                        F32ToU8(event.value)]
            ELSE handler
      [] OTHER -> handler

Value_mapper_event(handler, event, ctx) ==
    CASE event.type = "Connected" -> handler
      [] event.type = "Disconnected" ->
            [handler EXCEPT !.bindings_values = [i \in 0..(NumSlots - 1) |-> 0]]
      [] event.type = "Key" ->
            IF event.key \in KeyCode /\ event.key \in DOMAIN handler.key_indices
            THEN [handler EXCEPT
                    !.bindings_values[handler.key_indices[event.key]] =
                        IF event.pressed THEN 255 ELSE 0]
            ELSE handler
      [] event.type = "Button" ->
            IF event.button \in DOMAIN handler.button_indices
            THEN [handler EXCEPT
                    !.bindings_values[handler.button_indices[event.button]] =
                        F32ToU8(event.value)]
            ELSE handler
      [] OTHER -> handler

RECURSIVE SumSlots(_, _)
SumSlots(values, n) ==
    IF n = 0 THEN 0 ELSE values[n - 1] + SumSlots(values, n - 1)

\* Value::map: the sum of x / 255.0 over the 32 slots, in 255ths.
Value_map_result(handler) == SumSlots(handler.bindings_values, NumSlots)

\* Value_map_state with the slots drained by the call.
Value_map_state_ClearSlots(handler) ==
    [handler EXCEPT !.bindings_values = [i \in 0..(NumSlots - 1) |-> 0]]

Value_map_state(handler) == handler

\* ---------------------------------------------------------------------
\* lib_input: Axis<T> and the derived schema struct
\* ---------------------------------------------------------------------
Leaf_mapper_event(handler, event, ctx) ==
    IF handler.kind = "Button"
    THEN Button_mapper_event(handler, event, ctx)
    ELSE Value_mapper_event(handler, event, ctx)

Leaf_map_result(handler) ==
    IF handler.kind = "Button" THEN Button_map_result(handler) ELSE Value_map_result(handler)

Leaf_map_state(handler) ==
    IF handler.kind = "Button" THEN Button_map_state(handler) ELSE Value_map_state(handler)

\* Axis_mapper_event with a side reset whenever the other side reacts to
\* the event.
Axis_mapper_event_CrossTalk(handler, event, ctx) ==
    LET positive == Leaf_mapper_event(handler.positive, event, ctx)
        negative == Leaf_mapper_event(handler.negative, event, ctx)
    IN  [handler EXCEPT
            !.positive = IF negative # handler.negative
                         THEN Leaf_mapper_event(positive, Disconnected, ctx) ELSE positive,
            !.negative = IF positive # handler.positive
                         THEN Leaf_mapper_event(negative, Disconnected, ctx) ELSE negative]

Axis_mapper_event(handler, event, ctx) ==
    [handler EXCEPT !.positive = Leaf_mapper_event(@, event, ctx),
                    !.negative = Leaf_mapper_event(@, event, ctx)]

Axis_map_result(handler) ==
    [positive |-> Leaf_map_result(handler.positive),
     negative |-> Leaf_map_result(handler.negative)]

Axis_map_state(handler) ==
    [handler EXCEPT !.positive = Leaf_map_state(@), !.negative = Leaf_map_state(@)]

\* Axis<Button>::value: is_held as i8 of the positive side minus that of
\* the negative side.
Axis_Button_value(self) ==
    (IF self.positive.is_held THEN 1 ELSE 0) - (IF self.negative.is_held THEN 1 ELSE 0)

\* Axis_Value_value with the two sides added.
Axis_Value_value_Sum(self) == self.positive + self.negative

\* Axis<Value>::value, in 255ths.
Axis_Value_value(self) == self.positive - self.negative

Field_mapper_event(handler, event, ctx) ==
    IF handler.kind = "Axis"
    THEN Axis_mapper_event(handler, event, ctx)
    ELSE Leaf_mapper_event(handler, event, ctx)

Field_map_result(handler) ==
    IF handler.kind = "Axis" THEN Axis_map_result(handler) ELSE Leaf_map_result(handler)

Field_map_state(handler) ==
    IF handler.kind = "Axis" THEN Axis_map_state(handler) ELSE Leaf_map_state(handler)

\* Schema_mapper_event with the event consumed by the first field that
\* reacts to it.
Schema_mapper_event_FirstConsumes(handlers, event, ctx) ==
    [i \in DOMAIN handlers |->
        IF \E j \in DOMAIN handlers :
                j < i /\ Field_mapper_event(handlers[j], event, ctx) # handlers[j]
        THEN handlers[i]
        ELSE Field_mapper_event(handlers[i], event, ctx)]

\* The derived impl: every field, in declaration order, gets the same event
\* and context.
Schema_mapper_event(handlers, event, ctx) ==
    [i \in DOMAIN handlers |-> Field_mapper_event(handlers[i], event, ctx)]

Schema_map_result(handlers) == [i \in DOMAIN handlers |-> Field_map_result(handlers[i])]

Schema_map_state(handlers) == [i \in DOMAIN handlers |-> Field_map_state(handlers[i])]

\* The mapper states new_mapper can build for one field's bindings, one for
\* each iteration order of the binding sets.
Leaf_new_mappers(b) ==
    {IF b.kind = "Button" THEN Button_new_mapper(ks, bs) ELSE Value_new_mapper(ks, bs) :
        ks \in Orders(b.keys), bs \in Orders(b.buttons)}

Field_new_mappers(b) ==
    IF b.kind = "Axis"
    THEN {[kind |-> "Axis", positive |-> p, negative |-> n] :
            p \in Leaf_new_mappers(b.positive), n \in Leaf_new_mappers(b.negative)}
    ELSE Leaf_new_mappers(b)

\* ---------------------------------------------------------------------
\* lib_input: Mapper
\* ---------------------------------------------------------------------
Mapper_new_sticks ==
    [left_stick_right |-> 0, left_stick_left |-> 0, left_stick_up |-> 0,
     left_stick_down |-> 0, right_stick_right |-> 0, right_stick_left |-> 0,
     right_stick_up |-> 0, right_stick_down |-> 0]

\* The first match of Mapper::event.
Mapper_set_stick(s, event) ==
    IF event.type # "Button" THEN s
    ELSE CASE event.button = "LeftStickRight" -> [s EXCEPT !.left_stick_right = event.value]
           [] event.button = "LeftStickLeft" -> [s EXCEPT !.left_stick_left = event.value]
           [] event.button = "LeftStickUp" -> [s EXCEPT !.left_stick_up = event.value]
           [] event.button = "LeftStickDown" -> [s EXCEPT !.left_stick_down = event.value]
           [] event.button = "RightStickRight" -> [s EXCEPT !.right_stick_right = event.value]
           [] event.button = "RightStickLeft" -> [s EXCEPT !.right_stick_left = event.value]
           [] event.button = "RightStickUp" -> [s EXCEPT !.right_stick_up = event.value]
           [] event.button = "RightStickDown" -> [s EXCEPT !.right_stick_down = event.value]
           [] OTHER -> s

\* The MapperContext built in Mapper::event from the stick magnitudes.
MapperContext(s) ==
    [left_stick_dir |->
        NormalizeOrZero(s.left_stick_right - s.left_stick_left,
                        s.left_stick_up - s.left_stick_down),
     right_stick_dir |->
        NormalizeOrZero(s.right_stick_right - s.right_stick_left,
                        s.right_stick_up - s.right_stick_down)]

\* ---------------------------------------------------------------------
\* The older handlers: StickHandler, ButtonHandler, ValueHandler,
\* AxisHandler, InputHandler
\* ---------------------------------------------------------------------
StickHandler_new ==
    [left_stick_dir |-> [x |-> 0, y |-> 0], right_stick_dir |-> [x |-> 0, y |-> 0],
     left_stick_right |-> 0, left_stick_left |-> 0, left_stick_up |-> 0,
     left_stick_down |-> 0, right_stick_right |-> 0, right_stick_left |-> 0,
     right_stick_up |-> 0, right_stick_down |-> 0]

\* StickHandler::event: the directions are the raw difference vectors.
StickHandler_event(s, event) ==
    IF event.type # "Button" THEN s
    ELSE LET m ==
                CASE event.button = "LeftStickRight" -> [s EXCEPT !.left_stick_right = event.value]
                  [] event.button = "LeftStickLeft" -> [s EXCEPT !.left_stick_left = event.value]
                  [] event.button = "LeftStickUp" -> [s EXCEPT !.left_stick_up = event.value]
                  [] event.button = "LeftStickDown" -> [s EXCEPT !.left_stick_down = event.value]
                  [] event.button = "RightStickRight" -> [s EXCEPT !.right_stick_right = event.value]
                  [] event.button = "RightStickLeft" -> [s EXCEPT !.right_stick_left = event.value]
                  [] event.button = "RightStickUp" -> [s EXCEPT !.right_stick_up = event.value]
                  [] event.button = "RightStickDown" -> [s EXCEPT !.right_stick_down = event.value]
                  [] OTHER -> s
         IN  [m EXCEPT
                !.left_stick_dir = [x |-> m.left_stick_right - m.left_stick_left,
                                    y |-> m.left_stick_up - m.left_stick_down],
                !.right_stick_dir = [x |-> m.right_stick_right - m.right_stick_left,
                                     y |-> m.right_stick_up - m.right_stick_down]]

\* `c >= STICK_DIR_DOT` for a component c in thousandths.
AtLeastStickDirDot(c) == c * 10 >= MIN_DOT

ButtonHandler_new(keys_iter, buttons_iter) ==
    [kind |-> "Button",
     key_indices |-> [k \in Range(keys_iter) |-> (IndexOf(keys_iter, k) - 1) % 256],
     button_indices |->
        [b \in Range(buttons_iter) |-> (IndexOf(buttons_iter, b) - 1) % 256],
     held_bindings |-> NoBits,
     is_pressed |-> FALSE,
     was_held |-> FALSE]

ButtonHandler_is_held(code, value, stick_handler) ==
    CASE code \in OrdinaryButtonCode -> value >= HALF
      [] code = "LeftStickRight" ->
            value >= HALF /\ AtLeastStickDirDot(stick_handler.left_stick_dir.x)
      [] code = "LeftStickLeft" ->
            value >= HALF /\ AtLeastStickDirDot(-stick_handler.left_stick_dir.x)
      [] code = "LeftStickUp" ->
            value >= HALF /\ AtLeastStickDirDot(stick_handler.left_stick_dir.y)
      [] code = "LeftStickDown" ->
            value >= HALF /\ AtLeastStickDirDot(-stick_handler.left_stick_dir.y)
      [] code = "RightStickRight" ->
            value >= HALF /\ AtLeastStickDirDot(stick_handler.right_stick_dir.x)
      [] code = "RightStickLeft" ->
            value >= HALF /\ AtLeastStickDirDot(-stick_handler.right_stick_dir.x)
      [] code = "RightStickUp" ->
            value >= HALF /\ AtLeastStickDirDot(stick_handler.right_stick_dir.y)
      [] code = "RightStickDown" ->
            value >= HALF /\ AtLeastStickDirDot(-stick_handler.right_stick_dir.y)

\* The tail of ButtonHandler::event.
ButtonHandler_set_binding(self, binding_index, binding_is_held) ==
    LET binding_was_held == TestBit(self.held_bindings, binding_index)
    IN  [self EXCEPT
            !.is_pressed = IF binding_is_held /\ ~binding_was_held THEN TRUE ELSE @,
            !.held_bindings = WithBit(@, binding_index, binding_is_held)]

ButtonHandler_event(self, event, stick_handler) ==
    CASE event.type = "Key" ->
            IF event.key \in DOMAIN self.key_indices
            THEN ButtonHandler_set_binding(self, self.key_indices[event.key], event.pressed)
            ELSE self
      [] event.type = "Button" ->
            IF event.button \in DOMAIN self.button_indices
            THEN ButtonHandler_set_binding(self, self.button_indices[event.button],
                    ButtonHandler_is_held(event.button, event.value, stick_handler))
            ELSE self
      [] OTHER -> self

ButtonHandler_next_state_result(self) ==
    [is_held |-> self.held_bindings # NoBits,
     is_pressed |-> self.is_pressed,
     is_released |-> self.was_held /\ self.held_bindings = NoBits]

ButtonHandler_next_state_self(self) ==
    [self EXCEPT !.was_held = ButtonHandler_next_state_result(self).is_held,
                 !.is_pressed = FALSE]

ValueHandler_new(keys_iter, buttons_iter) ==
    [kind |-> "Value",
     key_indices |-> [k \in Range(keys_iter) |-> (IndexOf(keys_iter, k) - 1) % 256],
     button_indices |->
        [b \in Range(buttons_iter) |-> (IndexOf(buttons_iter, b) - 1) % 256],
     bindings_values |-> [i \in 0..(NumSlots - 1) |-> 0]]

ValueHandler_event(self, event) ==
    CASE event.type = "Key" ->
            IF event.key \in DOMAIN self.key_indices
            THEN [self EXCEPT
                    !.bindings_values[self.key_indices[event.key]] =
                        IF event.pressed THEN 255 ELSE 0]
            ELSE self
      [] event.type = "Button" ->
            IF event.button \in DOMAIN self.button_indices
            THEN [self EXCEPT
                    !.bindings_values[self.button_indices[event.button]] =
                        F32ToU8(event.value)]
            ELSE self
      [] OTHER -> self

\* ValueHandler::next_state: the sum, then .min(1.0).
ValueHandler_next_state_result(self) ==
    LET sum == SumSlots(self.bindings_values, NumSlots)
    IN  IF sum < ValueOne THEN sum ELSE ValueOne

LeafHandler_event(self, event, stick_handler) ==
    IF self.kind = "Button"
    THEN ButtonHandler_event(self, event, stick_handler)
    ELSE ValueHandler_event(self, event)

LeafHandler_next_state_result(self) ==
    IF self.kind = "Button"
    THEN ButtonHandler_next_state_result(self)
    ELSE ValueHandler_next_state_result(self)

LeafHandler_next_state_self(self) ==
    IF self.kind = "Button" THEN ButtonHandler_next_state_self(self) ELSE self

AxisHandler_event(self, event, stick_handler) ==
    [self EXCEPT !.positive = LeafHandler_event(@, event, stick_handler),
                 !.negative = LeafHandler_event(@, event, stick_handler)]

AxisHandler_next_state_result(self) ==
    [positive |-> LeafHandler_next_state_result(self.positive),
     negative |-> LeafHandler_next_state_result(self.negative)]

AxisHandler_next_state_self(self) ==
    [self EXCEPT !.positive = LeafHandler_next_state_self(@),
                 !.negative = LeafHandler_next_state_self(@)]

\* Axis<Value>::value of the older input module, in 255ths.
input_Axis_Value_value(self) == self.positive - self.negative

FieldHandler_event(self, event, stick_handler) ==
    IF self.kind = "Axis"
    THEN AxisHandler_event(self, event, stick_handler)
    ELSE LeafHandler_event(self, event, stick_handler)

FieldHandler_next_state_result(self) ==
    IF self.kind = "Axis"
    THEN AxisHandler_next_state_result(self)
    ELSE LeafHandler_next_state_result(self)

FieldHandler_next_state_self(self) ==
    IF self.kind = "Axis"
    THEN AxisHandler_next_state_self(self)
    ELSE LeafHandler_next_state_self(self)

LeafHandler_news(b) ==
    {IF b.kind = "Button" THEN ButtonHandler_new(ks, bs) ELSE ValueHandler_new(ks, bs) :
        ks \in Orders(b.keys), bs \in Orders(b.buttons)}

FieldHandler_news(b) ==
    IF b.kind = "Axis"
    THEN {[kind |-> "Axis", positive |-> p, negative |-> n] :
            p \in LeafHandler_news(b.positive), n \in LeafHandler_news(b.negative)}
    ELSE LeafHandler_news(b)

\* ---------------------------------------------------------------------
\* Bindings and devices of the checked configurations
\* ---------------------------------------------------------------------
ButtonBindings(keys, buttons) == [kind |-> "Button", keys |-> keys, buttons |-> buttons]
ValueBindings(keys, buttons) == [kind |-> "Value", keys |-> keys, buttons |-> buttons]
AxisBindings(positive, negative) ==
    [kind |-> "Axis", positive |-> positive, negative |-> negative]

\* Each setup: which iteration of the input code runs, the bindings of the
\* schema's fields in declaration order, the events the attached devices
\* deliver, and how many of them at most arrive between two mapping calls.
Setups ==
    { [iteration |-> "lib_input",
       bindings |-> << ButtonBindings({"Space"}, {}) >>,
       events |-> {Key("Space", TRUE), Key("Space", FALSE), Key("KeyX", TRUE), Disconnected},
       frame |-> MaxKeyEvents],
      [iteration |-> "lib_input",
       bindings |-> << ButtonBindings({"Space", "KeyC"}, {}) >>,
       events |-> {Key("Space", TRUE), Key("Space", FALSE), Key("KeyC", TRUE),
                   Key("KeyC", FALSE)},
       frame |-> MaxEvents],
      [iteration |-> "lib_input",
       bindings |-> << ButtonBindings({}, {"South", "East"}) >>,
       events |-> {ButtonEvent("South", 1000), ButtonEvent("South", 0),
                   ButtonEvent("East", 1000), Disconnected, Connected},
       frame |-> MaxEvents],
      [iteration |-> "lib_input",
       bindings |-> << ButtonBindings({"Space"}, {"South"}),
                       ValueBindings({"Space", "KeyC"}, {"South"}) >>,
       events |-> {Key("Space", TRUE), Key("KeyC", TRUE), ButtonEvent("South", 500),
                   Disconnected},
       frame |-> MaxEvents],
      [iteration |-> "lib_input",
       bindings |-> << ButtonBindings({}, {"LeftStickRight"}),
                       ButtonBindings({}, {"LeftStickUp"}) >>,
       events |-> {ButtonEvent("LeftStickRight", 1000), ButtonEvent("LeftStickRight", 400),
                   ButtonEvent("LeftStickUp", 1000), ButtonEvent("LeftStickUp", 0),
                   ButtonEvent("LeftStickLeft", 600)},
       frame |-> MaxEvents],
      [iteration |-> "lib_input",
       bindings |-> << ButtonBindings({}, {"RightStickDown", "DPadUp"}) >>,
       events |-> {ButtonEvent("RightStickDown", 1000), ButtonEvent("RightStickUp", 1000),
                   ButtonEvent("DPadUp", 500), ButtonEvent("DPadUp", 499), Disconnected},
       frame |-> MaxEvents],
      [iteration |-> "handlers",
       bindings |-> << ButtonBindings({"Space"}, {}), ValueBindings({"Space", "KeyC"}, {}) >>,
       events |-> {Key("Space", TRUE), Key("Space", FALSE), Key("KeyC", TRUE),
                   CloseRequested},
       frame |-> MaxEvents],
      [iteration |-> "handlers",
       bindings |-> << ButtonBindings({"Space"}, {"South"}) >>,
       events |-> {Key("Space", TRUE), Key("Space", FALSE),
                   ButtonEvent("South", 1000), ButtonEvent("South", 0)},
       frame |-> MaxEvents],
      [iteration |-> "lib_input",
       bindings |-> << ButtonBindings({}, {"LeftStickRight"}),
                       ButtonBindings({}, {"LeftStickUp"}) >>,
       events |-> {ButtonEvent("LeftStickRight", 985), ButtonEvent("LeftStickLeft", 1000),
                   ButtonEvent("LeftStickLeft", 0), ButtonEvent("LeftStickUp", 174)},
       frame |-> MaxEvents],
      [iteration |-> "lib_input",
       bindings |-> << AxisBindings(ValueBindings({"ArrowRight"}, {}),
                                    ValueBindings({"ArrowLeft"}, {})),
                       AxisBindings(ValueBindings({"ArrowRight", "KeyC"}, {}),
                                    ValueBindings({"ArrowLeft"}, {})) >>,
       events |-> {Key("ArrowRight", TRUE), Key("ArrowRight", FALSE),
                   Key("ArrowLeft", TRUE), Key("ArrowLeft", FALSE), Key("KeyC", TRUE)},
       frame |-> MaxEvents],
      [iteration |-> "lib_input",
       bindings |-> << AxisBindings(ButtonBindings({"ArrowRight"}, {}),
                                    ButtonBindings({"ArrowLeft"}, {"DPadLeft"})) >>,
       events |-> {Key("ArrowRight", TRUE), Key("ArrowRight", FALSE),
                   Key("ArrowLeft", TRUE), ButtonEvent("DPadLeft", 1000)},
       frame |-> MaxEvents],
      [iteration |-> "handlers",
       bindings |-> << AxisBindings(ValueBindings({"ArrowRight"}, {}),
                                    ValueBindings({"ArrowLeft"}, {})) >>,
       events |-> {Key("ArrowRight", TRUE), Key("ArrowRight", FALSE),
                   Key("ArrowLeft", TRUE), Key("ArrowLeft", FALSE)},
       frame |-> MaxEvents],
      [iteration |-> "lib_input",
       bindings |-> << ButtonBindings(KeyCode, ButtonCode) >>,
       events |-> {Key("Space", TRUE), Key("Space", FALSE),
                   ButtonEvent("Unknown", 1000), ButtonEvent("Unknown", 0)},
       frame |-> MaxEvents],
      [iteration |-> "lib_input",
       bindings |-> << ValueBindings(KeyCode, ButtonCode) >>,
       events |-> {Key("Space", TRUE), Key("Space", FALSE),
                   ButtonEvent("Unknown", 1000), ButtonEvent("South", 1000)},
       frame |-> MaxEvents],
      [iteration |-> "lib_input",
       bindings |-> << ButtonBindings({"Space"}, {"South"}),
                       ValueBindings({"Space"}, {"South"}) >>,
       events |-> {Key("Space", TRUE), ButtonEvent("South", 700),
                   Key("Unidentified", TRUE), ButtonEvent("East", 1000), Connected},
       frame |-> MaxEvents] }

VARIABLES
    setup,          \* the configuration: iteration, bindings, events, frame
    state,          \* Mapper.state / the field handlers of InputHandler
    sticks,         \* the 8 magnitudes of Mapper / InputHandler.stick_handler
    snapshot,       \* what the last mapping call returned (<<>> before the first)
    prev_snapshot,  \* what the mapping call before that returned, kept
                    \* from the last mapping call until the next event
    events,         \* the events delivered between the two last mapping calls,
                    \* or since the last one while events are arriving
    frame_start,    \* state, sticks and physically held sources when the
                    \* first event of `events` arrived
    last_op,        \* "new", "event" or "map"; "panic" once a call has panicked
    twin,           \* a second Mapper built from the same bindings with the
                    \* binding sets iterated in code order, fed the same
                    \* calls: its state and what its last map() returned
    runner,         \* the fields of the runner around the Game, with the
                    \* record of its last callback
    renderer        \* a DynQuadBuffer with the frame it batches quads for,
                    \* and the last slice taken of a quad buffer

vars == <<setup, state, sticks, snapshot, prev_snapshot, events, frame_start, last_op,
          twin, runner, renderer>>

\* ---------------------------------------------------------------------
\* The devices: which bound sources are physically held.  A key is held
\* from its press to its release; an ordinary gamepad button is held while
\* its value is at least 0.5; unplugging the gamepad releases its buttons.
\* ---------------------------------------------------------------------
SourcesAfterEvent(sources, event) ==
    CASE event.type = "Key" /\ event.key \in KeyCode ->
            IF event.pressed THEN sources \cup {event.key} ELSE sources \ {event.key}
      [] event.type = "Button" /\ event.button \in OrdinaryButtonCode ->
            IF event.value >= 500
            THEN sources \cup {event.button}
            ELSE sources \ {event.button}
      [] event.type = "Disconnected" -> sources \ ButtonCode
      [] OTHER -> sources

RECURSIVE SourcesAfter(_, _)
SourcesAfter(sources, evs) ==
    IF evs = <<>> THEN sources
    ELSE SourcesAfter(SourcesAfterEvent(sources, Head(evs)), Tail(evs))

\* new_mapper with the binding sets iterated in code order.
Leaf_new_mapper_InCodeOrder(b) ==
    IF b.kind = "Button"
    THEN Button_new_mapper(InCodeOrder(b.keys), InCodeOrder(b.buttons))
    ELSE Value_new_mapper(InCodeOrder(b.keys), InCodeOrder(b.buttons))

Field_new_mapper_InCodeOrder(b) ==
    IF b.kind = "Axis"
    THEN [kind |-> "Axis",
          positive |-> Leaf_new_mapper_InCodeOrder(b.positive),
          negative |-> Leaf_new_mapper_InCodeOrder(b.negative)]
    ELSE Leaf_new_mapper_InCodeOrder(b)

\* Every control of the schema has at most 32 sources.
AtMost32Sources ==
    \A i \in DOMAIN setup.bindings :
        LET b == setup.bindings[i]
        IN  IF b.kind = "Axis"
            THEN /\ Cardinality(b.positive.keys \cup b.positive.buttons) <= NumSlots
                 /\ Cardinality(b.negative.keys \cup b.negative.buttons) <= NumSlots
            ELSE Cardinality(b.keys \cup b.buttons) <= NumSlots

\* The second Mapper is kept for lib_input schemas within the 32 sources.
TwinKept == setup.iteration = "lib_input" /\ AtMost32Sources

\* Mapper::new for the second Mapper.
Twin_new ==
    [state |-> IF TwinKept
               THEN [i \in DOMAIN setup.bindings |->
                        Field_new_mapper_InCodeOrder(setup.bindings[i])]
               ELSE <<>>,
     snapshot |-> <<>>]

\* The stand-in for the runner where the Mapper is driven directly.
NoRunner == [callback |-> "-"]

\* The stand-in for the renderer where the input code is driven.
NoRenderer == [op |-> "-"]

\* Mapper::new / InputHandler::new
Init ==
    /\ setup \in Setups
    /\ state \in
            {st \in [DOMAIN setup.bindings ->
                        UNION {IF setup.iteration = "lib_input"
                               THEN Field_new_mappers(setup.bindings[i])
                               ELSE FieldHandler_news(setup.bindings[i]) :
                               i \in DOMAIN setup.bindings}] :
                \A i \in DOMAIN setup.bindings :
                    st[i] \in (IF setup.iteration = "lib_input"
                               THEN Field_new_mappers(setup.bindings[i])
                               ELSE FieldHandler_news(setup.bindings[i]))}
    /\ sticks = IF setup.iteration = "lib_input" THEN Mapper_new_sticks ELSE StickHandler_new
    /\ snapshot = <<>>
    /\ prev_snapshot = <<>>
    /\ events = <<>>
    /\ frame_start = [state |-> state, sticks |-> sticks, sources |-> {}]
    /\ last_op = "new"
    /\ twin = Twin_new
    /\ runner = NoRunner
    /\ renderer = NoRenderer

\* The history of the frame after one more event.
EventsAfter(event) == (IF last_op = "map" THEN <<>> ELSE events) \o <<event>>

\* The start of the frame the next operation belongs to: a new frame starts
\* with the first operation after a mapping call.
FrameStartNow ==
    IF last_op = "map"
    THEN [state |-> state, sticks |-> sticks,
          sources |-> SourcesAfter(frame_start.sources, events)]
    ELSE frame_start

CanDeliver == last_op # "panic" /\ (last_op = "map" \/ Len(events) < setup.frame)

\* The leaf handlers of a mapper state.
LeafHandlers(st) ==
    UNION {IF st[i].kind = "Axis" THEN {st[i].positive, st[i].negative} ELSE {st[i]} :
            i \in DOMAIN st}

\* The binding_idx the handler finds for the event (-1 if it returns early).
BindingIdx(handler, event) ==
    CASE event.type = "Key" /\ event.key \in KeyCode /\ event.key \in DOMAIN handler.key_indices
            -> handler.key_indices[event.key]
      [] event.type = "Button" /\ event.button \in DOMAIN handler.button_indices
            -> handler.button_indices[event.button]
      [] OTHER -> -1

\* `1 << binding_idx` with binding_idx >= 32 panics where shifts are
\* checked for overflow and wraps where they are not.
ShiftOverflows(st, event) ==
    \E handler \in LeafHandlers(st) :
        handler.kind = "Button" /\ BindingIdx(handler, event) >= NumSlots

\* `bindings_values[binding_idx as usize]` with binding_idx >= 32 panics.
IndexOutOfBounds(st, event) ==
    \E handler \in LeafHandlers(st) :
        handler.kind = "Value" /\ BindingIdx(handler, event) >= NumSlots

\* Mapper_event_result with the context built before the magnitude is stored.
Mapper_event_result_StaleContext(st, sk, event) ==
    [sticks |-> Mapper_set_stick(sk, event),
     state |-> Schema_mapper_event(st, event, MapperContext(sk))]

\* Mapper::event on a Mapper with the fields (state, sticks): the magnitude
\* is stored first, then every field gets the event with the context built
\* from the stored magnitudes.
Mapper_event_result(st, sk, event) ==
    LET updated == Mapper_set_stick(sk, event)
    IN  [sticks |-> updated,
         state |-> Schema_mapper_event(st, event, MapperContext(updated))]

\* Mapper::event and Mapper::map of the second Mapper.  The magnitudes do
\* not depend on the slot numbering, so the two Mappers share `sticks`.
Twin_event(event) ==
    IF TwinKept
    THEN [twin EXCEPT !.state = Mapper_event_result(twin.state, sticks, event).state]
    ELSE twin

Twin_map ==
    IF TwinKept
    THEN [state |-> Schema_map_state(twin.state), snapshot |-> Schema_map_result(twin.state)]
    ELSE twin

Mapper_event(event) ==
    /\ setup.iteration = "lib_input"
    /\ CanDeliver
    /\ ~IndexOutOfBounds(state, event)
    /\ sticks' = Mapper_event_result(state, sticks, event).sticks
    /\ state' = Mapper_event_result(state, sticks, event).state
    /\ events' = EventsAfter(event)
    /\ frame_start' = FrameStartNow
    /\ last_op' = "event"
    /\ prev_snapshot' = <<>>
    /\ twin' = Twin_event(event)
    /\ UNCHANGED <<setup, snapshot, runner, renderer>>

\* Mapper::event panicking in a leaf's mapper_event.
Mapper_event_panic(event) ==
    /\ setup.iteration = "lib_input"
    /\ CanDeliver
    /\ ShiftOverflows(state, event) \/ IndexOutOfBounds(state, event)
    /\ events' = EventsAfter(event)
    /\ frame_start' = FrameStartNow
    /\ last_op' = "panic"
    /\ prev_snapshot' = <<>>
    /\ UNCHANGED <<setup, state, sticks, snapshot, twin, runner, renderer>>

\* Mapper::map
Mapper_map ==
    /\ setup.iteration = "lib_input"
    /\ last_op # "panic"
    /\ snapshot' = Schema_map_result(state)
    /\ state' = Schema_map_state(state)
    /\ prev_snapshot' = snapshot
    /\ events' = IF last_op = "map" THEN <<>> ELSE events
    /\ frame_start' = FrameStartNow
    /\ last_op' = "map"
    /\ twin' = Twin_map
    /\ UNCHANGED <<setup, sticks, runner, renderer>>

\* InputHandler::event on an InputHandler with the fields (state, sticks):
\* the stick handler first, then every field handler in declaration order.
InputHandler_event_result(st, sk, event) ==
    LET stick_handler == StickHandler_event(sk, event)
    IN  [sticks |-> stick_handler,
         state |-> [i \in DOMAIN st |-> FieldHandler_event(st[i], event, stick_handler)]]

InputHandler_event(event) ==
    /\ setup.iteration = "handlers"
    /\ CanDeliver
    /\ sticks' = InputHandler_event_result(state, sticks, event).sticks
    /\ state' = InputHandler_event_result(state, sticks, event).state
    /\ events' = EventsAfter(event)
    /\ frame_start' = FrameStartNow
    /\ last_op' = "event"
    /\ prev_snapshot' = <<>>
    /\ UNCHANGED <<setup, snapshot, twin, runner, renderer>>

\* InputHandler::next_state
InputHandler_next_state ==
    /\ setup.iteration = "handlers"
    /\ snapshot' = [i \in DOMAIN state |-> FieldHandler_next_state_result(state[i])]
    /\ state' = [i \in DOMAIN state |-> FieldHandler_next_state_self(state[i])]
    /\ prev_snapshot' = snapshot
    /\ events' = IF last_op = "map" THEN <<>> ELSE events
    /\ frame_start' = FrameStartNow
    /\ last_op' = "map"
    /\ UNCHANGED <<setup, sticks, twin, runner, renderer>>

Next ==
    \/ \E event \in setup.events : Mapper_event(event)
    \/ \E event \in setup.events : Mapper_event_panic(event)
    \/ Mapper_map
    \/ \E event \in setup.events : InputHandler_event(event)
    \/ InputHandler_next_state

Spec == Init /\ [][Next]_vars

\* ---------------------------------------------------------------------
\* The frame in retrospect
\* ---------------------------------------------------------------------
\* The handler state and magnitudes after the first n events of the frame.
RECURSIVE Replay(_, _)
Replay(m, evs) ==
    IF evs = <<>> THEN m
    ELSE Replay(IF setup.iteration = "lib_input"
                THEN Mapper_event_result(m.state, m.sticks, Head(evs))
                ELSE InputHandler_event_result(m.state, m.sticks, Head(evs)),
                Tail(evs))

AfterEvents(n) ==
    Replay([state |-> frame_start.state, sticks |-> frame_start.sticks], SubSeq(events, 1, n))

\* The sources physically held after the first n events of the frame.
SourcesAt(n) == SourcesAfter(frame_start.sources, SubSeq(events, 1, n))

Fields == DOMAIN state
ButtonFields == {i \in Fields : state[i].kind = "Button"}
ValueFields == {i \in Fields : state[i].kind = "Value"}
BoundSources(i) == setup.bindings[i].keys \cup setup.bindings[i].buttons

\* The last operation was a mapping call, so that `snapshot` is its result
\* and `events` the events it was called after.
Mapped == last_op = "map"

\* The last two operations were mapping calls.
MappedTwice == last_op = "map" /\ events = <<>> /\ prev_snapshot # <<>>

LastEvent == events[Len(events)]

\* The handler of field i just before the last event of the frame.
BeforeLastEvent(i) == AfterEvents(Len(events) - 1).state[i]

\* ---------------------------------------------------------------------
\* C1.  Press edge is consumed exactly once: when map() / next_state() is
\* called twice with no event in between, the second call returns
\* is_pressed = false for every Button, whatever the first call returned.
\* ---------------------------------------------------------------------
C1_PressEdgeConsumedOnce ==
    MappedTwice => \A i \in ButtonFields : snapshot[i].is_pressed = FALSE

\* The first of two back-to-back calls reported the press, the second did not.
C1_Witness ==
    /\ MappedTwice
    /\ \E i \in ButtonFields : prev_snapshot[i].is_pressed /\ ~snapshot[i].is_pressed

\* ---------------------------------------------------------------------
\* C2.  Press latch: when a bound source of a Button goes from not held to
\* held and back to not held between two consecutive mapping calls, the
\* later call returns is_pressed = true.
\* ---------------------------------------------------------------------
PressedAndReleasedInFrame(source) ==
    \E j, k \in 1..Len(events) :
        /\ j < k
        /\ source \notin SourcesAt(j - 1)
        /\ source \in SourcesAt(j)
        /\ source \notin SourcesAt(k)

C2_PressLatch ==
    Mapped =>
        \A i \in ButtonFields :
            \A source \in BoundSources(i) \ StickButtonCode :
                PressedAndReleasedInFrame(source) => snapshot[i].is_pressed

\* ---------------------------------------------------------------------
\* C3.  Button map() result and state update: the call returns
\* is_held = (mask # 0), is_pressed = the latch, is_released = (was_held
\* and mask = 0); after it was_held equals the returned is_held, the latch
\* is false and the mask is unchanged.
\* ---------------------------------------------------------------------
C3_MapResultAndUpdate ==
    [][last_op' = "map" =>
        \A i \in ButtonFields :
            /\ snapshot'[i].is_held = (state[i].held_bindings # NoBits)
            /\ snapshot'[i].is_pressed = state[i].is_pressed
            /\ snapshot'[i].is_released = (state[i].was_held /\ state[i].held_bindings = NoBits)
            /\ state'[i].was_held = snapshot'[i].is_held
            /\ state'[i].is_pressed = FALSE
            /\ state'[i].held_bindings = state[i].held_bindings]_vars

\* A call that reported a release and a press at once, and cleared was_held.
C3_Witness ==
    /\ Mapped
    /\ \E i \in ButtonFields :
            snapshot[i].is_released /\ snapshot[i].is_pressed /\ ~state[i].was_held

\* ---------------------------------------------------------------------
\* C4.  As claimed: is_pressed of a mapping call is true iff at some event
\* since the previous call the control as a whole went from no slot held
\* to some slot held.
\* ---------------------------------------------------------------------
SetRoseAt(i, j) ==
    /\ AfterEvents(j - 1).state[i].held_bindings = NoBits
    /\ AfterEvents(j).state[i].held_bindings # NoBits

C4_PressedIffSetRose ==
    (Mapped /\ setup.iteration = "lib_input") =>
        \A i \in ButtonFields :
            snapshot[i].is_pressed <=> \E j \in 1..Len(events) : SetRoseAt(i, j)

\* C4, amended: is_pressed of a mapping call is true iff at some event
\* since the previous call some slot of the control went from not held to
\* held, whether or not other slots of the control were held then.
SlotRoseAt(i, j) ==
    LET before == AfterEvents(j - 1).state[i].held_bindings
        after == AfterEvents(j).state[i].held_bindings
    IN  \E idx \in 0..(NumSlots - 1) : ~TestBit(before, idx) /\ TestBit(after, idx)

C4_PressedIffSlotRose ==
    (Mapped /\ setup.iteration = "lib_input") =>
        \A i \in ButtonFields :
            snapshot[i].is_pressed <=> \E j \in 1..Len(events) : SlotRoseAt(i, j)

\* A press reported for a second source while the control was held throughout.
C4_Witness ==
    /\ Mapped
    /\ setup.iteration = "lib_input"
    /\ \E i \in ButtonFields :
            /\ snapshot[i].is_pressed
            /\ \A j \in 0..Len(events) : AfterEvents(j).state[i].held_bindings # NoBits

\* ---------------------------------------------------------------------
\* C5.  As claimed: for a Button bound to a key, press, release, press,
\* release of the key before map() makes that map() return
\* is_pressed = true, is_released = true and is_held = false, whatever the
\* state at the previous map().
\* ---------------------------------------------------------------------
DoubleToggle(k) == <<Key(k, TRUE), Key(k, FALSE), Key(k, TRUE), Key(k, FALSE)>>

DoubleToggled(i) ==
    /\ Mapped
    /\ setup.iteration = "lib_input"
    /\ \E k \in KeyCode : BoundSources(i) = {k} /\ events = DoubleToggle(k)

C5_DoubleToggle ==
    \A i \in ButtonFields :
        DoubleToggled(i) =>
            snapshot[i].is_pressed /\ snapshot[i].is_released /\ ~snapshot[i].is_held

\* C5, amended: after press, release, press, release of the bound key,
\* map() returns is_pressed = true and is_held = false, and is_released is
\* true exactly when the previous map() returned is_held = true.
C5_DoubleToggleReleasedIfWasHeld ==
    \A i \in ButtonFields :
        DoubleToggled(i) =>
            /\ snapshot[i].is_pressed
            /\ ~snapshot[i].is_held
            /\ snapshot[i].is_released <=> (prev_snapshot # <<>> /\ prev_snapshot[i].is_held)

\* The double toggle of a key that was held at the previous map().
C5_Witness ==
    \E i \in ButtonFields :
        DoubleToggled(i) /\ snapshot[i].is_pressed /\ snapshot[i].is_released

\* ---------------------------------------------------------------------
\* C6.  Value clamp: the value a lib_input Value maps to is never above 1.0
\* and never below 0.0.
\* ---------------------------------------------------------------------
C6_ValueClamp ==
    (Mapped /\ setup.iteration = "lib_input") =>
        \A i \in ValueFields : snapshot[i] >= 0 /\ snapshot[i] <= ValueOne

\* ---------------------------------------------------------------------
\* C7.  Value mapping is idempotent and free of side effects: a mapping
\* call leaves every slot byte unchanged, and a call that follows another
\* with no event in between returns the identical value.
\* ---------------------------------------------------------------------
C7_ValueMapIdempotent ==
    [][last_op' = "map" =>
        \A i \in ValueFields :
            /\ state'[i].bindings_values = state[i].bindings_values
            /\ last_op = "map" => snapshot'[i] = snapshot[i]]_vars

\* Two back-to-back calls that returned the same non-zero value.
C7_Witness ==
    /\ MappedTwice
    /\ \E i \in ValueFields : snapshot[i] > 0 /\ snapshot[i] = prev_snapshot[i]

\* ---------------------------------------------------------------------
\* C8.  As claimed: for a Button bound only to gamepad buttons whose slot is
\* held, a Disconnected event followed by map() returns is_held = false and
\* is_released = true.
\* ---------------------------------------------------------------------
GamepadOnly(i) == setup.bindings[i].keys = {} /\ setup.bindings[i].buttons # {}

DisconnectedWhileHeld(i) ==
    /\ Mapped
    /\ setup.iteration = "lib_input"
    /\ GamepadOnly(i)
    /\ events # <<>>
    /\ LastEvent = Disconnected
    /\ BeforeLastEvent(i).held_bindings # NoBits

C8_DisconnectReleases ==
    \A i \in ButtonFields :
        DisconnectedWhileHeld(i) => ~snapshot[i].is_held /\ snapshot[i].is_released

\* C8, amended: the same, for a control whose slot is held and which the
\* previous map() already reported as held.
C8_DisconnectReleasesHeldControl ==
    \A i \in ButtonFields :
        (DisconnectedWhileHeld(i) /\ prev_snapshot # <<>> /\ prev_snapshot[i].is_held) =>
            ~snapshot[i].is_held /\ snapshot[i].is_released

\* A held gamepad control unplugged between two mapping calls.
C8_Witness ==
    \E i \in ButtonFields :
        /\ DisconnectedWhileHeld(i)
        /\ prev_snapshot # <<>>
        /\ prev_snapshot[i].is_held
        /\ snapshot[i].is_released

\* ---------------------------------------------------------------------
\* C9.  A Disconnected event clears every slot of every leaf, the slots of
\* keyboard keys included: right after it every held mask is 0 and every
\* slot byte is 0, and a map() with no later event reports is_held = false
\* for every Button and 0.0 for every Value.
\* ---------------------------------------------------------------------
JustDisconnected ==
    setup.iteration = "lib_input" /\ events # <<>> /\ LastEvent = Disconnected

C9_DisconnectClearsAll ==
    JustDisconnected =>
        /\ \A i \in ButtonFields : state[i].held_bindings = NoBits
        /\ \A i \in ValueFields :
                \A idx \in 0..(NumSlots - 1) : state[i].bindings_values[idx] = 0
        /\ Mapped =>
                /\ \A i \in ButtonFields : ~snapshot[i].is_held
                /\ \A i \in ValueFields : snapshot[i] = 0

\* A map() after a disconnect that found a held key slot and a non-zero Value.
C9_Witness ==
    /\ JustDisconnected
    /\ Mapped
    /\ \E i \in ButtonFields :
            /\ setup.bindings[i].keys # {}
            /\ \E k \in setup.bindings[i].keys :
                    TestBit(BeforeLastEvent(i).held_bindings, state[i].key_indices[k])
    /\ \E i \in ValueFields : Value_map_result(BeforeLastEvent(i)) > 0

\* ---------------------------------------------------------------------
\* C10.  Held decision for gamepad events: an event for a bound gamepad code
\* makes the slot held iff value >= 0.5 for the 20 ordinary codes, and for
\* the 8 stick codes iff value >= 0.5 and the stick's normalized direction
\* after this event has a dot product of at least 0.3827 with the code's
\* axis; otherwise the slot becomes not held.
\* ---------------------------------------------------------------------
\* The component of the stick vector along the code's axis, and the
\* squared length of the stick vector, from the magnitudes sk.
StickVector(code, sk) ==
    LET left == code \in {"LeftStickRight", "LeftStickLeft", "LeftStickUp", "LeftStickDown"}
        x == IF left THEN sk.left_stick_right - sk.left_stick_left
                     ELSE sk.right_stick_right - sk.right_stick_left
        y == IF left THEN sk.left_stick_up - sk.left_stick_down
                     ELSE sk.right_stick_up - sk.right_stick_down
    IN  [along |-> CASE code \in {"LeftStickRight", "RightStickRight"} -> x
                     [] code \in {"LeftStickLeft", "RightStickLeft"} -> -x
                     [] code \in {"LeftStickUp", "RightStickUp"} -> y
                     [] code \in {"LeftStickDown", "RightStickDown"} -> -y,
         len2 |-> x * x + y * y]

InCone(code, sk) ==
    LET v == StickVector(code, sk)
    IN  v.along > 0 /\ FracGe(v.along * v.along, v.len2, 3827 * 3827, 10000 * 10000)

HeldDecision(event, sk) ==
    /\ event.value >= 500
    /\ event.button \in OrdinaryButtonCode \/ InCone(event.button, sk)

C10_HeldDecision ==
    /\ Cardinality(OrdinaryButtonCode) = 20
    /\ Cardinality(StickButtonCode) = 8
    /\ (setup.iteration = "lib_input" /\ last_op = "event" /\ LastEvent.type = "Button") =>
            \A i \in ButtonFields :
                LastEvent.button \in DOMAIN state[i].button_indices =>
                    (TestBit(state[i].held_bindings, state[i].button_indices[LastEvent.button])
                        <=> HeldDecision(LastEvent, sticks))

\* A stick event of full magnitude that left its slot not held, the stick
\* pointing away from the code's cone.
C10_Witness ==
    /\ setup.iteration = "lib_input"
    /\ last_op = "event"
    /\ LastEvent.type = "Button"
    /\ LastEvent.button \in StickButtonCode
    /\ LastEvent.value >= 500
    /\ StickVector(LastEvent.button, sticks).along > 0
    /\ \E i \in ButtonFields :
            /\ LastEvent.button \in DOMAIN state[i].button_indices
            /\ ~TestBit(state[i].held_bindings, state[i].button_indices[LastEvent.button])

\* ---------------------------------------------------------------------
\* C11.  Direction is updated before it is read: for an event on one of the
\* 8 stick pseudo-buttons Mapper::event first stores the event's value in
\* the matching magnitude (and in no other), and every leaf handles that
\* event with the directions normalized from the stored magnitudes (the
\* zero vector for a zero vector), never with those of before the event.
\* ---------------------------------------------------------------------
MagnitudeOf(code, sk) ==
    CASE code = "LeftStickRight" -> sk.left_stick_right
      [] code = "LeftStickLeft" -> sk.left_stick_left
      [] code = "LeftStickUp" -> sk.left_stick_up
      [] code = "LeftStickDown" -> sk.left_stick_down
      [] code = "RightStickRight" -> sk.right_stick_right
      [] code = "RightStickLeft" -> sk.right_stick_left
      [] code = "RightStickUp" -> sk.right_stick_up
      [] code = "RightStickDown" -> sk.right_stick_down

\* The directions of the magnitudes sk.
DirectionsOf(sk) ==
    [left_stick_dir |->
        IF sk.left_stick_right = sk.left_stick_left /\ sk.left_stick_up = sk.left_stick_down
        THEN [x |-> 0, y |-> 0, len2 |-> 1]
        ELSE [x |-> sk.left_stick_right - sk.left_stick_left,
              y |-> sk.left_stick_up - sk.left_stick_down,
              len2 |-> (sk.left_stick_right - sk.left_stick_left)
                            * (sk.left_stick_right - sk.left_stick_left)
                       + (sk.left_stick_up - sk.left_stick_down)
                            * (sk.left_stick_up - sk.left_stick_down)],
     right_stick_dir |->
        IF sk.right_stick_right = sk.right_stick_left /\ sk.right_stick_up = sk.right_stick_down
        THEN [x |-> 0, y |-> 0, len2 |-> 1]
        ELSE [x |-> sk.right_stick_right - sk.right_stick_left,
              y |-> sk.right_stick_up - sk.right_stick_down,
              len2 |-> (sk.right_stick_right - sk.right_stick_left)
                            * (sk.right_stick_right - sk.right_stick_left)
                       + (sk.right_stick_up - sk.right_stick_down)
                            * (sk.right_stick_up - sk.right_stick_down)]]

JustStickEvent ==
    /\ setup.iteration = "lib_input"
    /\ last_op = "event"
    /\ LastEvent.type = "Button"
    /\ LastEvent.button \in StickButtonCode

C11_DirectionUpdatedBeforeRead ==
    JustStickEvent =>
        LET before == AfterEvents(Len(events) - 1)
        IN  /\ MagnitudeOf(LastEvent.button, sticks) = LastEvent.value
            /\ \A code \in StickButtonCode \ {LastEvent.button} :
                    MagnitudeOf(code, sticks) = MagnitudeOf(code, before.sticks)
            /\ state = [i \in DOMAIN before.state |->
                            Field_mapper_event(before.state[i], LastEvent, DirectionsOf(sticks))]

\* A stick event whose outcome differs between the directions before and
\* after it: the bound Button became held thanks to the magnitude the
\* event itself stored.
C11_Witness ==
    /\ JustStickEvent
    /\ \E i \in ButtonFields :
            /\ LastEvent.button \in DOMAIN state[i].button_indices
            /\ TestBit(state[i].held_bindings, state[i].button_indices[LastEvent.button])
            /\ Field_mapper_event(BeforeLastEvent(i), LastEvent,
                    DirectionsOf(AfterEvents(Len(events) - 1).sticks)) # state[i]

\* ---------------------------------------------------------------------
\* C12.  Stick cone scenario: when the stick events have left the left
\* stick 10 degrees off horizontal at full deflection (right 0.985, up
\* 0.174, left and down 0), the next map() reports the Button bound to
\* LeftStickRight as held and the Button bound to LeftStickUp as not held.
\* ---------------------------------------------------------------------
\* The Button fields bound to the stick code alone.
StickFields(code) ==
    {i \in ButtonFields :
        setup.bindings[i].keys = {} /\ setup.bindings[i].buttons = {code}}

TenDegreesOffHorizontal ==
    /\ sticks.left_stick_right = 985
    /\ sticks.left_stick_up = 174
    /\ sticks.left_stick_left = 0
    /\ sticks.left_stick_down = 0

C12_StickConeScenario ==
    (Mapped /\ setup.iteration = "lib_input" /\ events # <<>> /\ TenDegreesOffHorizontal) =>
        /\ \A i \in StickFields("LeftStickRight") : snapshot[i].is_held
        /\ \A i \in StickFields("LeftStickUp") : ~snapshot[i].is_held

\* ---------------------------------------------------------------------
\* C13.  As claimed: a Button bound to LeftStickRight and a Button bound to
\* LeftStickUp are never both held at the same map() call.
\* ---------------------------------------------------------------------
C13_DiagonalExclusive ==
    (Mapped /\ setup.iteration = "lib_input") =>
        \A i \in StickFields("LeftStickRight"), j \in StickFields("LeftStickUp") :
            ~(snapshot[i].is_held /\ snapshot[j].is_held)

\* The last event for the code among the events of the frame (0 if none).
LastEventFor(code) ==
    LET at == {j \in 1..Len(events) : events[j].type = "Button" /\ events[j].button = code}
    IN  IF at = {} THEN 0 ELSE CHOOSE j \in at : \A k \in at : k <= j

DisconnectedSince(j) ==
    \E k \in (j + 1)..Len(events) : events[k].type = "Disconnected"

\* C13, amended: at a map() call a Button bound to LeftStickRight (to
\* LeftStickUp) whose code had an event since the previous map(), with no
\* disconnect after it, is held exactly when the last such event had a
\* value of at least 0.5 and the normalized direction right after that event
\* had x (y) of at least 0.3827.  Both are held for a diagonal direction
\* between 22.5 and 67.5 degrees; a direction less than 22.5 degrees
\* from one axis does not hold the other.
C13_HeldWithinWideCone ==
    (Mapped /\ setup.iteration = "lib_input") =>
        \A code \in {"LeftStickRight", "LeftStickUp"} :
            \A i \in StickFields(code) :
                LET j == LastEventFor(code)
                IN  (j # 0 /\ ~DisconnectedSince(j)) =>
                        (snapshot[i].is_held <=>
                            (events[j].value >= 500 /\ InCone(code, AfterEvents(j).sticks)))

\* The stick pushed to a diagonal within the frame: both Buttons held.
C13_Witness ==
    /\ Mapped
    /\ setup.iteration = "lib_input"
    /\ LastEventFor("LeftStickRight") # 0
    /\ LastEventFor("LeftStickUp") # 0
    /\ \E i \in StickFields("LeftStickRight"), j \in StickFields("LeftStickUp") :
            snapshot[i].is_held /\ snapshot[j].is_held

\* ---------------------------------------------------------------------
\* C14.  Axis value composition: for an Axis<Value> whose positive side is
\* bound to one key A and whose negative side to another key B, value() of
\* the snapshot is 1.0 when only A is held, 0.0 when both are held, 0.0
\* when neither is held and -1.0 when only B is held.
\* ---------------------------------------------------------------------
AxisFields == {i \in Fields : state[i].kind = "Axis"}
AxisValueFields == {i \in AxisFields : state[i].positive.kind = "Value"}

\* value() of the Axis<Value> snapshot of field i.
SnapshotAxisValue(i) ==
    IF setup.iteration = "lib_input"
    THEN Axis_Value_value(snapshot[i])
    ELSE input_Axis_Value_value(snapshot[i])

\* The sources physically held at the last mapping call.
SourcesAtMap == SourcesAfter(frame_start.sources, events)

\* Field i is an axis of two single keys A and B.
KeyAxis(i, A, B) ==
    /\ A # B
    /\ setup.bindings[i].positive.keys = {A}
    /\ setup.bindings[i].positive.buttons = {}
    /\ setup.bindings[i].negative.keys = {B}
    /\ setup.bindings[i].negative.buttons = {}

C15_AxisValueRange ==
    (Mapped /\ setup.iteration = "lib_input") =>
        \A i \in AxisValueFields :
            Axis_Value_value(snapshot[i]) >= -255 /\ Axis_Value_value(snapshot[i]) <= 255

\* ---------------------------------------------------------------------
\* C16.  Axis sides are independent: an Axis hands every event to both of
\* its sides; an event naming a source bound only to the positive side
\* leaves the state of the negative side unchanged, and vice versa; and a
\* mapping call maps each side from that side's own state only.
\* ---------------------------------------------------------------------
\* The source an event names ("-" for the events that name none).
EventSource(event) ==
    CASE event.type = "Key" -> event.key
      [] event.type = "Button" -> event.button
      [] OTHER -> "-"

SideSources(i, side) ==
    IF side = "positive"
    THEN setup.bindings[i].positive.keys \cup setup.bindings[i].positive.buttons
    ELSE setup.bindings[i].negative.keys \cup setup.bindings[i].negative.buttons

\* What one side's handler becomes by the event / the mapping call on its
\* own, and what it maps to.
SideAfterEvent(side_state, event, sk) ==
    IF setup.iteration = "lib_input"
    THEN Leaf_mapper_event(side_state, event, DirectionsOf(sk))
    ELSE LeafHandler_event(side_state, event, sk)

SideMapResult(side_state) ==
    IF setup.iteration = "lib_input"
    THEN Leaf_map_result(side_state)
    ELSE LeafHandler_next_state_result(side_state)

SideMapState(side_state) ==
    IF setup.iteration = "lib_input"
    THEN Leaf_map_state(side_state)
    ELSE LeafHandler_next_state_self(side_state)

C16_AxisSidesIndependent ==
    [][\A i \in AxisFields :
        /\ last_op' = "event" =>
            LET event == events'[Len(events')]
            IN  /\ state'[i].positive = SideAfterEvent(state[i].positive, event, sticks')
                /\ state'[i].negative = SideAfterEvent(state[i].negative, event, sticks')
                /\ EventSource(event) \in SideSources(i, "positive") \ SideSources(i, "negative")
                        => state'[i].negative = state[i].negative
                /\ EventSource(event) \in SideSources(i, "negative") \ SideSources(i, "positive")
                        => state'[i].positive = state[i].positive
        /\ last_op' = "map" =>
            /\ snapshot'[i].positive = SideMapResult(state[i].positive)
            /\ snapshot'[i].negative = SideMapResult(state[i].negative)
            /\ state'[i].positive = SideMapState(state[i].positive)
            /\ state'[i].negative = SideMapState(state[i].negative)]_vars

\* An event for a source of the positive side alone changed the positive
\* side while the negative side was held, and the negative side is as it
\* was before the event.
C16_Witness ==
    /\ last_op = "event"
    /\ \E i \in AxisFields :
            /\ EventSource(LastEvent) \in SideSources(i, "positive") \ SideSources(i, "negative")
            /\ state[i].positive # BeforeLastEvent(i).positive
            /\ state[i].negative = BeforeLastEvent(i).negative
            /\ state[i].negative.kind = "Button"
            /\ state[i].negative.held_bindings # NoBits

\* ---------------------------------------------------------------------
\* C17.  No cross-field leakage: every event reaches every field, also
\* when two fields are bound to the same key; at each mapping call each
\* field's value, and its handler after the call, are those of a schema
\* with that field alone, started in the field's state at the beginning of
\* the frame and fed the same events.
\* ---------------------------------------------------------------------
\* The handler of field i on its own, after the events of the frame.
AloneAfterEvents(i) ==
    Replay([state |-> << frame_start.state[i] >>, sticks |-> frame_start.sticks], events).state

AloneMapResult(handlers) ==
    IF setup.iteration = "lib_input"
    THEN Schema_map_result(handlers)[1]
    ELSE FieldHandler_next_state_result(handlers[1])

AloneMapState(handlers) ==
    IF setup.iteration = "lib_input"
    THEN Schema_map_state(handlers)[1]
    ELSE FieldHandler_next_state_self(handlers[1])

C17_NoCrossFieldLeakage ==
    Mapped =>
        \A i \in Fields :
            /\ snapshot[i] = AloneMapResult(AloneAfterEvents(i))
            /\ state[i] = AloneMapState(AloneAfterEvents(i))

\* A Button and a Value bound to the same key, both reporting its press of
\* this frame.
C17_Witness ==
    /\ Mapped
    /\ \E n \in 1..Len(events) : events[n] = Key("Space", TRUE)
    /\ \E i \in ButtonFields, j \in ValueFields :
            /\ "Space" \in setup.bindings[i].keys
            /\ "Space" \in setup.bindings[j].keys
            /\ snapshot[i].is_pressed
            /\ snapshot[j] >= 255

\* ---------------------------------------------------------------------
\* C18.  Slot assignment in lib_input: new_mapper gives the k bound keys of
\* a control the indices 0..k-1 and its b bound gamepad buttons the
\* indices k..k+b-1; with k+b <= 32 every bound source has a slot of its
\* own, and an event for one source leaves the slots of the other sources
\* of the control as they were.
\* ---------------------------------------------------------------------
\* The leaves of the schema: a Button or Value field, or a side of an Axis.
Leaves ==
    {<<i, "-">> : i \in ButtonFields \cup ValueFields}
        \cup {<<i, side>> : i \in AxisFields, side \in {"positive", "negative"}}

LeafOf(field, leaf) ==
    CASE leaf[2] = "-" -> field
      [] leaf[2] = "positive" -> field.positive
      [] leaf[2] = "negative" -> field.negative

LeafBindings(leaf) == LeafOf(setup.bindings[leaf[1]], leaf)
LeafState(leaf) == LeafOf(state[leaf[1]], leaf)
LeafSources(leaf) == LeafBindings(leaf).keys \cup LeafBindings(leaf).buttons

\* The slot index the handler gives the bound source.
SlotIndex(handler, source) ==
    IF source \in DOMAIN handler.key_indices
    THEN handler.key_indices[source]
    ELSE handler.button_indices[source]

\* What the handler holds in slot idx: the bit of a Button, the byte of a Value.
SlotContent(handler, idx) ==
    IF handler.kind = "Button"
    THEN (IF TestBit(handler.held_bindings, idx) THEN 1 ELSE 0)
    ELSE handler.bindings_values[idx]

KeysThenButtons(leaf) ==
    LET k == Cardinality(LeafBindings(leaf).keys)
        b == Cardinality(LeafBindings(leaf).buttons)
        h == LeafState(leaf)
    IN  /\ DOMAIN h.key_indices = LeafBindings(leaf).keys
        /\ DOMAIN h.button_indices = LeafBindings(leaf).buttons
        /\ {h.key_indices[x] : x \in LeafBindings(leaf).keys} = 0..(k - 1)
        /\ {h.button_indices[x] : x \in LeafBindings(leaf).buttons} = k..(k + b - 1)

OtherSlotsUntouched(leaf) ==
    (last_op = "event" /\ EventSource(LastEvent) \in LeafSources(leaf)) =>
        \A other \in LeafSources(leaf) \ {EventSource(LastEvent)} :
            /\ SlotIndex(LeafState(leaf), other)
                    # SlotIndex(LeafState(leaf), EventSource(LastEvent))
            /\ SlotContent(LeafState(leaf), SlotIndex(LeafState(leaf), other))
                    = SlotContent(LeafOf(BeforeLastEvent(leaf[1]), leaf),
                                  SlotIndex(LeafState(leaf), other))

C18_SlotAssignment ==
    setup.iteration = "lib_input" =>
        \A leaf \in Leaves :
            Cardinality(LeafSources(leaf)) <= NumSlots =>
                KeysThenButtons(leaf) /\ OtherSlotsUntouched(leaf)

\* An event for the gamepad button of a control changed the button's slot
\* while the slot of the control's key was held, and stays held.
C18_Witness ==
    /\ setup.iteration = "lib_input"
    /\ last_op = "event"
    /\ LastEvent.type = "Button"
    /\ \E leaf \in Leaves :
            /\ LastEvent.button \in LeafBindings(leaf).buttons
            /\ SlotContent(LeafState(leaf), SlotIndex(LeafState(leaf), LastEvent.button))
                    # SlotContent(LeafOf(BeforeLastEvent(leaf[1]), leaf),
                                  SlotIndex(LeafState(leaf), LastEvent.button))
            /\ \E k \in LeafBindings(leaf).keys :
                    SlotContent(LeafState(leaf), SlotIndex(LeafState(leaf), k)) > 0

\* ---------------------------------------------------------------------
\* C19.  More than 32 bound sources on one control are rejected when the
\* mapper state is built: no mapper state exists for such a control, every
\* slot index a built state holds is below 32, and no event panics.
\* ---------------------------------------------------------------------
C19_RejectedWhenBuilt ==
    setup.iteration = "lib_input" =>
        /\ \A leaf \in Leaves :
                /\ Cardinality(LeafSources(leaf)) <= NumSlots
                /\ \A source \in LeafSources(leaf) :
                        SlotIndex(LeafState(leaf), source) < NumSlots
        /\ last_op # "panic"

\* ---------------------------------------------------------------------
\* C20.  Unrecognized events change nothing: a key event whose code is not
\* bound to the leaf, a key event whose physical key is not a Code, a
\* gamepad button event whose code is not bound to the leaf, and a
\* Connected event each leave the whole state of the leaf (Button: mask,
\* latch, was_held; Value: every slot byte) as it was, and an event that
\* no leaf recognizes raises no error.
\* ---------------------------------------------------------------------
Unrecognized(leaf, event) ==
    CASE event.type = "Key" ->
            event.key \notin KeyCode \/ event.key \notin LeafBindings(leaf).keys
      [] event.type = "Button" -> event.button \notin LeafBindings(leaf).buttons
      [] event.type = "Connected" -> TRUE
      [] OTHER -> FALSE

C20_UnrecognizedEventsChangeNothing ==
    (setup.iteration = "lib_input" /\ last_op \in {"event", "panic"}) =>
        /\ \A leaf \in Leaves :
                (last_op = "event" /\ Unrecognized(leaf, LastEvent)) =>
                    LeafState(leaf) = LeafOf(BeforeLastEvent(leaf[1]), leaf)
        /\ (\A leaf \in Leaves : Unrecognized(leaf, LastEvent)) => last_op # "panic"

\* A key event with a physical key that is not a Code arrived at a held
\* Button with its latch set, and at a Value with non-zero slots.
C20_Witness ==
    /\ setup.iteration = "lib_input"
    /\ last_op = "event"
    /\ LastEvent.type = "Key"
    /\ LastEvent.key \notin KeyCode
    /\ \E i \in ButtonFields : state[i].held_bindings # NoBits /\ state[i].is_pressed
    /\ \E i \in ValueFields : Value_map_result(state[i]) > 0

\* ---------------------------------------------------------------------
\* C21.  Idempotence under key repeat: a press event for a bound key whose
\* slot is already held leaves the Button state (mask, latch, was_held) and
\* the Value slots as they were; a frame made of such repeats only does
\* not make the next map() report is_pressed = true, and a Value does not
\* count the key twice.
\* ---------------------------------------------------------------------
\* The event is a press of a key bound to the leaf whose slot the handler
\* already holds.
IsRepeat(handler, leaf, event) ==
    /\ event.type = "Key"
    /\ event.pressed
    /\ event.key \in KeyCode
    /\ event.key \in LeafBindings(leaf).keys
    /\ SlotContent(handler, SlotIndex(handler, event.key)) > 0

C21_KeyRepeatIdempotent ==
    setup.iteration = "lib_input" =>
        \A leaf \in Leaves :
            /\ (last_op = "event"
                    /\ IsRepeat(LeafOf(BeforeLastEvent(leaf[1]), leaf), leaf, LastEvent)) =>
                    LeafState(leaf) = LeafOf(BeforeLastEvent(leaf[1]), leaf)
            /\ (Mapped /\ events # <<>>
                    /\ \A n \in 1..Len(events) :
                            IsRepeat(LeafOf(frame_start.state[leaf[1]], leaf), leaf, events[n])) =>
                    IF LeafState(leaf).kind = "Button"
                    THEN ~LeafOf(snapshot[leaf[1]], leaf).is_pressed
                    ELSE LeafOf(snapshot[leaf[1]], leaf)
                            = Value_map_result(LeafOf(frame_start.state[leaf[1]], leaf))

\* A repeat of a held key arrived right after a map(), and the next map()
\* reported the Button held and not pressed.
C21_Witness ==
    /\ setup.iteration = "lib_input"
    /\ Mapped
    /\ Len(events) = 1
    /\ \E i \in ButtonFields :
            /\ IsRepeat(frame_start.state[i], <<i, "-">>, events[1])
            /\ snapshot[i].is_held
            /\ ~snapshot[i].is_pressed

\* ---------------------------------------------------------------------
\* C22.  Value slot encoding: a bound key event sets its slot byte to 0xFF
\* when pressed and 0x00 when released, and a bound gamepad button or
\* axis-derived event with value v in [0,1] sets its slot byte to
\* round(v*255), the nearest integer.
\* ---------------------------------------------------------------------
\* v * 255 rounded to the nearest integer, halves away from zero.
RoundToU8(value) == (value * ValueOne + 500) \div 1000

ValueLeaves == {leaf \in Leaves : LeafState(leaf).kind = "Value"}

C22_ValueSlotEncoding ==
    last_op = "event" =>
        \A leaf \in ValueLeaves :
            LET h == LeafState(leaf)
            IN  /\ (LastEvent.type = "Key" /\ LastEvent.key \in LeafBindings(leaf).keys) =>
                        h.bindings_values[h.key_indices[LastEvent.key]]
                            = (IF LastEvent.pressed THEN 255 ELSE 0)
                /\ (LastEvent.type = "Button"
                        /\ LastEvent.button \in LeafBindings(leaf).buttons
                        /\ LastEvent.value \in 0..1000) =>
                        h.bindings_values[h.button_indices[LastEvent.button]]
                            = RoundToU8(LastEvent.value)

\* ---------------------------------------------------------------------
\* C23.  As claimed: a skipped frame loses the press.  The Mapper knows no
\* frame but the one map() closes, so a frame that ends without map() is
\* a point k in the events delivered since the previous map().  If a
\* press edge of a Button occurs up to k and none after k, the next map()
\* reports is_pressed = false.
\* ---------------------------------------------------------------------
\* The frame that ended after event k without a map() held a press edge of
\* Button i, and no press edge of it followed.
PressInSkippedFrame(i, k) ==
    /\ \E j \in 1..k : SlotRoseAt(i, j)
    /\ \A j \in (k + 1)..Len(events) : ~SlotRoseAt(i, j)

C23_SkippedFrameLosesPress ==
    (Mapped /\ setup.iteration = "lib_input") =>
        \A i \in ButtonFields :
            \A k \in 1..(Len(events) - 1) :
                PressInSkippedFrame(i, k) => ~snapshot[i].is_pressed

\* C23, amended: the press is carried forward.  The latch set by a press
\* edge stays set through every later event, so the next map() that is
\* called reports is_pressed = true for a press edge of a frame that ended
\* without map().
C23_SkippedFramePressCarried ==
    (Mapped /\ setup.iteration = "lib_input") =>
        \A i \in ButtonFields :
            \A k \in 1..(Len(events) - 1) :
                PressInSkippedFrame(i, k) => snapshot[i].is_pressed

\* The press edge came with the first event, the events after it released
\* the control, and map() reported the press of the control it found not
\* held.
C23_Witness ==
    /\ Mapped
    /\ setup.iteration = "lib_input"
    /\ Len(events) >= 2
    /\ \E i \in ButtonFields :
            /\ PressInSkippedFrame(i, 1)
            /\ snapshot[i].is_pressed
            /\ ~snapshot[i].is_held

\* ---------------------------------------------------------------------
\* C24.  As claimed: order across sources is irrelevant.  Two event
\* sequences delivered between two map() calls that hold the same keyboard
\* events in the same order and the same gamepad events (Connected,
\* Disconnected, button, axis-derived) in the same order, and differ only
\* in how the two streams are interleaved, leave the same Mapper state and
\* make the following map() return the same snapshot.
\* ---------------------------------------------------------------------
\* The upstream source an event comes from: the window callback or the
\* gamepad poll queue.
Stream(event) == IF event.type = "Key" THEN "keyboard" ELSE "gamepad"

\* The orders of the events evs that keep the order within each stream.
Interleavings(evs) ==
    LET n == Len(evs)
        perms == {p \in [1..n -> 1..n] : \A a, b \in 1..n : a # b => p[a] # p[b]}
        keeps(p) == \A a, b \in 1..n :
                        (a < b /\ Stream(evs[p[a]]) = Stream(evs[p[b]])) => p[a] < p[b]
    IN  IF \A a \in 1..n : Stream(evs[a]) = Stream(evs[1])
        THEN {evs}
        ELSE {[a \in 1..n |-> evs[p[a]]] : p \in {q \in perms : keeps(q)}}

\* The Mapper fields after the events evs delivered to the Mapper of the
\* frame's start and a map(), with the snapshot the map() returns.
MappedAfter(evs) ==
    LET m == Replay([state |-> frame_start.state, sticks |-> frame_start.sticks], evs)
    IN  [state |-> Schema_map_state(m.state),
         sticks |-> m.sticks,
         snapshot |-> Schema_map_result(m.state)]

C24_InterleavingIrrelevant ==
    (Mapped /\ setup.iteration = "lib_input") =>
        \A evs \in Interleavings(events) :
            MappedAfter(evs) = [state |-> state, sticks |-> sticks, snapshot |-> snapshot]

\* C24, amended: the same, for gamepad streams that hold no Disconnected
\* event and controls of at most 32 sources.  Disconnected clears the
\* slots of the keys too, so a key pressed before it is released by it and
\* a key pressed after it stays held.
NoDisconnected(evs) == \A n \in 1..Len(evs) : evs[n].type # "Disconnected"

C24_InterleavingIrrelevantWithoutDisconnected ==
    (Mapped /\ setup.iteration = "lib_input"
        /\ NoDisconnected(events)
        /\ \A leaf \in Leaves : Cardinality(LeafSources(leaf)) <= NumSlots) =>
        \A evs \in Interleavings(events) :
            MappedAfter(evs) = [state |-> state, sticks |-> sticks, snapshot |-> snapshot]

\* A press of a bound key and an event of a bound gamepad button came in
\* the same frame, next to each other, and both reached the snapshot.
C24_Witness ==
    /\ Mapped
    /\ setup.iteration = "lib_input"
    /\ NoDisconnected(events)
    /\ \E n \in 1..(Len(events) - 1) : \E i \in ButtonFields \cup ValueFields :
            /\ events[n].type = "Key"
            /\ events[n].key \in setup.bindings[i].keys
            /\ events[n + 1].type = "Button"
            /\ events[n + 1].button \in setup.bindings[i].buttons
            /\ AfterEvents(n - 1).state[i] # AfterEvents(n).state[i]
            /\ AfterEvents(n).state[i] # AfterEvents(n + 1).state[i]
            /\ Cardinality(Interleavings(events)) > 1

\* ---------------------------------------------------------------------
\* C25.  Determinism: two Mappers built from equal bindings (each control
\* with at most 32 sources) and fed the same sequence of events and map()
\* calls return equal snapshots at every map(), whatever order the binding
\* sets are iterated in when slot indices are assigned, and with schema
\* fields always visited in declaration order.  The Mapper of `state` is
\* built with any iteration order, the one of `twin` with the code order.
\* ---------------------------------------------------------------------
C25_Determinism ==
    (Mapped /\ TwinKept) =>
        /\ DOMAIN snapshot = DOMAIN setup.bindings
        /\ snapshot = twin.snapshot

\* The two Mappers number the sources of a leaf differently, and the leaf
\* holds a source at a map().
C25_Witness ==
    /\ Mapped
    /\ TwinKept
    /\ \E leaf \in Leaves :
            LET mine == LeafState(leaf)
                other == LeafOf(twin.state[leaf[1]], leaf)
            IN  /\ \E source \in LeafSources(leaf) :
                        /\ SlotIndex(mine, source) # SlotIndex(other, source)
                        /\ SlotContent(mine, SlotIndex(mine, source)) > 0
                /\ mine # other

\* ---------------------------------------------------------------------
\* C30.  Slot assignment in the older handlers: in ButtonHandler::new and
\* ValueHandler::new the keys get the indices 0..k-1 and the gamepad
\* buttons continue with k..k+b-1, so that a control bound to a key and a
\* gamepad button tracks them in two different slots: an event for one of
\* them leaves the slot of the other as it was (releasing the gamepad
\* button while the key is held leaves the control held).
\* ---------------------------------------------------------------------
C30_HandlersSlotAssignment ==
    setup.iteration = "handlers" =>
        \A leaf \in Leaves :
            Cardinality(LeafSources(leaf)) <= NumSlots =>
                KeysThenButtons(leaf) /\ OtherSlotsUntouched(leaf)

\* =====================================================================
\* The lib_app runner (GameRunner) around the Game of src/src/app.rs
\* =====================================================================
\* What gilrs hands to poll_gilrs_events, values in thousandths.
GilrsAxis ==
    {"LeftStickX", "LeftStickY", "LeftZ", "RightStickX", "RightStickY", "RightZ",
     "DPadX", "DPadY", "Unknown"}

GilrsConnected == [type |-> "Connected", axis |-> "-", button |-> "-", value |-> 0]
GilrsDisconnected == [type |-> "Disconnected", axis |-> "-", button |-> "-", value |-> 0]
AxisChanged(axis, value) ==
    [type |-> "AxisChanged", axis |-> axis, button |-> "-", value |-> value]
ButtonChanged(button, value) ==
    [type |-> "ButtonChanged", axis |-> "-", button |-> button, value |-> value]
GilrsDropped == [type |-> "Dropped", axis |-> "-", button |-> "-", value |-> 0]

\* What winit hands to window_event.
KeyboardInput(k, p, repeat) == [type |-> "KeyboardInput", event |-> Key(k, p), repeat |-> repeat]
WindowCloseRequested == [type |-> "CloseRequested", event |-> CloseRequested, repeat |-> FALSE]
RedrawRequested == [type |-> "RedrawRequested", event |-> CloseRequested, repeat |-> FALSE]
Focused == [type |-> "Focused", event |-> CloseRequested, repeat |-> FALSE]

\* AppEvent::UnhandledWindowEvent as the Game sees it.
UnhandledWindowEvent ==
    [type |-> "UnhandledWindowEvent", key |-> "-", pressed |-> FALSE, button |-> "-", value |-> 0]

\* At most this many events are in the gilrs queue when it is polled, and
\* at most this many update calls are counted between two draws.
MaxPolled == 2
MaxUpdates == 2

Max(a, b) == IF a >= b THEN a ELSE b

RECURSIVE Flatten(_)
Flatten(ss) == IF ss = <<>> THEN <<>> ELSE Head(ss) \o Flatten(Tail(ss))

\* The sequences over S of length at most n.
SeqsUpTo(S, n) == UNION {[1..k -> S] : k \in 0..n}

\* Game::event: a device event goes to the Mapper, CloseRequested exits,
\* anything else is dropped.
Game_event(m, event) ==
    CASE event.type \in {"Connected", "Disconnected", "Key", "Button"} ->
            [m |-> Mapper_event_result(m.state, m.sticks, event), flow |-> "Continue"]
      [] event.type = "CloseRequested" -> [m |-> m, flow |-> "Exit"]
      [] OTHER -> [m |-> m, flow |-> "Continue"]

\* AppHandler::event of the handler the runner is built around: drill's
\* Game, or an application that differs from it in answering the device
\* events of setup.exit_on with AppFlow::Exit.
AppHandler_event(m, event) ==
    IF event \in setup.exit_on
    THEN [m |-> m, flow |-> "Exit"]
    ELSE Game_event(m, event)

\* One call of an AppHandler callback and what it returned.
Call(name, flow) == [name |-> name, flow |-> flow]

\* DeviceEventsOf with the axis value handed on unclamped: v to the
\* positive code and -v to the negative code.
DeviceEventsOf_NoClamp(event) ==
    CASE event.type = "Connected" -> <<Connected>>
      [] event.type = "Disconnected" -> <<Disconnected>>
      [] event.type = "AxisChanged" ->
            LET codes ==
                    CASE event.axis = "LeftStickX" -> <<"LeftStickRight", "LeftStickLeft">>
                      [] event.axis = "LeftStickY" -> <<"LeftStickUp", "LeftStickDown">>
                      [] event.axis = "RightStickX" -> <<"RightStickRight", "RightStickLeft">>
                      [] event.axis = "RightStickY" -> <<"RightStickUp", "RightStickDown">>
                      [] event.axis = "Unknown" -> <<"Unknown", "Unknown">>
                      [] OTHER -> <<>>
            IN  IF codes = <<>>
                THEN <<>>
                ELSE <<ButtonEvent(codes[1], event.value), ButtonEvent(codes[2], -event.value)>>
      [] event.type = "ButtonChanged" -> <<ButtonEvent(event.button, event.value)>>
      [] OTHER -> <<>>

\* The device events one gilrs event makes poll_gilrs_events hand to
\* game.event, in order.
DeviceEventsOf(event) ==
    CASE event.type = "Connected" -> <<Connected>>
      [] event.type = "Disconnected" -> <<Disconnected>>
      [] event.type = "AxisChanged" ->
            LET codes ==
                    CASE event.axis = "LeftStickX" -> <<"LeftStickRight", "LeftStickLeft">>
                      [] event.axis = "LeftStickY" -> <<"LeftStickUp", "LeftStickDown">>
                      [] event.axis = "RightStickX" -> <<"RightStickRight", "RightStickLeft">>
                      [] event.axis = "RightStickY" -> <<"RightStickUp", "RightStickDown">>
                      [] event.axis = "Unknown" -> <<"Unknown", "Unknown">>
                      [] OTHER -> <<>>
            IN  IF codes = <<>>
                THEN <<>>
                ELSE <<ButtonEvent(codes[1], Max(event.value, 0)),
                       ButtonEvent(codes[2], Max(-event.value, 0))>>
      [] event.type = "ButtonChanged" -> <<ButtonEvent(event.button, event.value)>>
      [] OTHER -> <<>>

\* handle_gameflow! over the device events of one gilrs event: each goes to
\* game.event, and an Exit ends poll_gilrs_events on the spot.
RECURSIVE DispatchAll(_, _)
DispatchAll(g, devs) ==
    IF devs = <<>> THEN g
    ELSE LET r == AppHandler_event(g.m, Head(devs))
             after == [g EXCEPT !.m = r.m, !.given = Append(@, Head(devs)),
                                !.calls = Append(@, Call("event", r.flow))]
         IN  IF r.flow = "Exit"
             THEN [after EXCEPT !.returned = TRUE]
             ELSE DispatchAll(after, Tail(devs))

\* poll_gilrs_events: `while let Some(event) = self.gilrs.next_event()`.
\* g.dispatched gets, per gilrs event taken from the queue, the device
\* events handed to game.event for it.
RECURSIVE poll_gilrs_events(_, _)
poll_gilrs_events(g, queue) ==
    IF queue = <<>> THEN g
    ELSE LET r == DispatchAll([g EXCEPT !.given = <<>>], DeviceEventsOf(Head(queue)))
             after == [r EXCEPT !.dispatched = Append(@, r.given)]
         IN  IF after.returned THEN after ELSE poll_gilrs_events(after, Tail(queue))

\* No window event: the last callback was not window_event.
NoWindowEvent == [type |-> "-", event |-> CloseRequested, repeat |-> FALSE]

\* InitializedGameRunner::new, and the record of the last callback.
GameRunner_new ==
    [callback |-> "new",
     alt_left_is_held |-> FALSE,
     alt_right_is_held |-> FALSE,
     fullscreen |-> FALSE,
     exited |-> FALSE,              \* event_loop.exit() has been called
     stopped |-> FALSE,             \* the event loop delivers nothing more
     polled |-> <<>>,               \* what gilrs held at the last about_to_wait
     dispatched |-> <<>>,           \* per polled event, what game.event was given
     drew |-> FALSE,                \* the last callback called game.draw
     updates_since_draw |-> 0,      \* game.update calls since the last game.draw
     calls |-> <<>>,                \* the AppHandler calls of the last callback
     handled |-> NoWindowEvent,     \* the window event of the last callback
     held_alts |-> {}]              \* the Alt keys that are physically down

\* The second Mapper after the same events and, if mapped, the same map().
Twin_after(devs, mapped) ==
    IF TwinKept
    THEN LET t == Replay([state |-> twin.state, sticks |-> sticks], devs)
         IN  IF mapped
             THEN [state |-> Schema_map_state(t.state),
                   snapshot |-> Schema_map_result(t.state)]
             ELSE [twin EXCEPT !.state = t.state]
    ELSE twin

\* GameRunner::about_to_wait with update called before the gilrs queue is
\* polled.
GameRunner_about_to_wait_UpdateFirst(queue, stops) ==
    LET g == poll_gilrs_events(
                [m |-> [state |-> Schema_map_state(state), sticks |-> sticks],
                 given |-> <<>>, dispatched |-> <<>>, calls |-> <<>>,
                 returned |-> FALSE],
                queue)
        devs == Flatten(g.dispatched)
    IN  /\ ~runner.stopped
        /\ runner.updates_since_draw < MaxUpdates
        /\ state' = g.m.state
        /\ sticks' = g.m.sticks
        /\ snapshot' = Schema_map_result(state)
        /\ last_op' = IF devs = <<>> THEN "map" ELSE "event"
        /\ twin' = Twin_after(<<>>, TRUE)
        /\ runner' = [runner EXCEPT
                        !.callback = "about_to_wait",
                        !.polled = queue,
                        !.dispatched = g.dispatched,
                        !.drew = FALSE,
                        !.updates_since_draw = @ + 1,
                        !.calls = <<Call("update", "Continue")>> \o g.calls,
                        !.handled = NoWindowEvent,
                        !.stopped = runner.exited /\ stops]
        /\ UNCHANGED <<setup, events, frame_start, prev_snapshot, renderer>>

\* GameRunner::about_to_wait: poll_gilrs_events, then game.update (which is
\* Mapper::map and always continues), then window.request_redraw(), which
\* changes no field of the runner or the Game.
GameRunner_about_to_wait(queue, stops) ==
    LET g == poll_gilrs_events(
                [m |-> [state |-> state, sticks |-> sticks],
                 given |-> <<>>, dispatched |-> <<>>, calls |-> <<>>,
                 returned |-> FALSE],
                queue)
        devs == Flatten(g.dispatched)
        exits == runner.exited \/ g.returned
    IN  /\ ~runner.stopped
        /\ runner.updates_since_draw < MaxUpdates
        /\ state' = Schema_map_state(g.m.state)
        /\ sticks' = g.m.sticks
        /\ snapshot' = Schema_map_result(g.m.state)
        /\ last_op' = "map"
        /\ twin' = Twin_after(devs, TRUE)
        /\ runner' = [runner EXCEPT
                        !.callback = "about_to_wait",
                        !.polled = queue,
                        !.dispatched = g.dispatched,
                        !.drew = FALSE,
                        !.updates_since_draw = @ + 1,
                        !.calls = Append(g.calls, Call("update", "Continue")),
                        !.handled = NoWindowEvent,
                        !.exited = exits,
                        !.stopped = exits /\ stops]
        /\ UNCHANGED <<setup, events, frame_start, prev_snapshot, renderer>>

\* InitializedGameRunner::fsswitch_window_event
fsswitch_window_event(r, event) ==
    IF event.type # "KeyboardInput" \/ event.repeat
    THEN r
    ELSE CASE event.event.key = "AltLeft" -> [r EXCEPT !.alt_left_is_held = event.event.pressed]
           [] event.event.key = "AltRight" -> [r EXCEPT !.alt_left_is_held = event.event.pressed]
           [] event.event.key = "Enter" /\ event.event.pressed ->
                IF r.alt_left_is_held \/ r.alt_right_is_held
                THEN [r EXCEPT !.fullscreen = ~@]
                ELSE r
           [] OTHER -> r

\* The Alt keys that are physically down after the window event: a press
\* or release that is not a key repeat changes the key it names.
HeldAltsAfter(held, event) ==
    IF event.type = "KeyboardInput" /\ ~event.repeat
            /\ event.event.key \in {"AltLeft", "AltRight"}
    THEN IF event.event.pressed THEN held \cup {event.event.key}
                                ELSE held \ {event.event.key}
    ELSE held

\* GameRunner::window_event: the fullscreen switch, game.event with the
\* translated event, and on RedrawRequested game.draw if the surface gives
\* a texture.
GameRunner_window_event(event, texture_ok, stops) ==
    LET game_event ==
            CASE event.type = "CloseRequested" -> CloseRequested
              [] event.type = "KeyboardInput" -> event.event
              [] OTHER -> UnhandledWindowEvent
        r == AppHandler_event([state |-> state, sticks |-> sticks], game_event)
        devs == IF game_event.type = "Key" THEN <<game_event>> ELSE <<>>
        switched == fsswitch_window_event(runner, event)
        exits == runner.exited \/ r.flow = "Exit"
        draws == r.flow # "Exit" /\ event.type = "RedrawRequested" /\ texture_ok
    IN  /\ ~runner.stopped
        /\ event.type = "RedrawRequested" \/ texture_ok
        /\ state' = r.m.state
        /\ sticks' = r.m.sticks
        /\ last_op' = IF devs = <<>> THEN last_op ELSE "event"
        /\ twin' = Twin_after(devs, FALSE)
        /\ runner' = [switched EXCEPT
                        !.callback = "window_event",
                        !.polled = <<>>,
                        !.dispatched = <<>>,
                        !.drew = draws,
                        !.updates_since_draw = IF draws THEN 0 ELSE @,
                        !.calls = <<Call("event", r.flow)>>
                                    \o (IF draws THEN <<Call("draw", "-")>> ELSE <<>>),
                        !.handled = event,
                        !.held_alts = HeldAltsAfter(@, event),
                        !.exited = exits,
                        !.stopped = exits /\ stops]
        /\ UNCHANGED <<setup, snapshot, events, frame_start, prev_snapshot, renderer>>

\* The Games the runner drives: the bindings, the key events and
\* other window events winit may deliver, and the events gilrs may hold.
\* The frame history (events, frame_start, prev_snapshot) is kept where the
\* Mapper is driven directly; under the runner the record of the last
\* callback stands in for it.
RunnerSetups ==
    { [iteration |-> "lib_input",
       bindings |-> << AxisBindings(ValueBindings({"ArrowRight"}, {}),
                                    ValueBindings({"ArrowLeft"}, {})),
                       ButtonBindings({"Space"}, {}) >>,
       window |-> {KeyboardInput("Space", TRUE, FALSE), KeyboardInput("Space", FALSE, FALSE),
                   KeyboardInput("ArrowRight", TRUE, FALSE),
                   WindowCloseRequested, RedrawRequested, Focused},
       gilrs |-> {ButtonChanged("South", 1000), AxisChanged("DPadX", 1000)},
       exit_on |-> {}],
      [iteration |-> "lib_input",
       bindings |-> << ButtonBindings({}, {"LeftStickRight"}) >>,
       window |-> {RedrawRequested},
       gilrs |-> {AxisChanged("LeftStickX", -1000), AxisChanged("LeftStickX", 1000),
                  AxisChanged("LeftStickY", 1000)},
       exit_on |-> {}],
      [iteration |-> "lib_input",
       bindings |-> << ButtonBindings({}, {"RightStickDown", "South"}) >>,
       window |-> {RedrawRequested},
       gilrs |-> {AxisChanged("RightStickY", -600), AxisChanged("LeftZ", 1000),
                  GilrsDisconnected, ButtonChanged("South", 1000)},
       exit_on |-> {}],
      [iteration |-> "lib_input",
       bindings |-> << ButtonBindings({"Space"}, {}) >>,
       window |-> {KeyboardInput("AltLeft", TRUE, FALSE), KeyboardInput("AltLeft", FALSE, FALSE),
                   KeyboardInput("AltRight", TRUE, FALSE),
                   KeyboardInput("AltRight", FALSE, FALSE),
                   KeyboardInput("Enter", TRUE, FALSE), KeyboardInput("Enter", TRUE, TRUE)},
       gilrs |-> {},
       exit_on |-> {}],
      [iteration |-> "lib_input",
       bindings |-> << ButtonBindings({}, {"South"}) >>,
       window |-> {RedrawRequested, WindowCloseRequested},
       gilrs |-> {ButtonChanged("South", 1000), ButtonChanged("Start", 1000)},
       exit_on |-> {ButtonEvent("Start", 1000)}] }

\* resumed: InitializedGameRunner::new with the Game's Mapper::new.
RunnerInit ==
    /\ setup \in RunnerSetups
    /\ state \in
            {st \in [DOMAIN setup.bindings ->
                        UNION {Field_new_mappers(setup.bindings[i]) :
                               i \in DOMAIN setup.bindings}] :
                \A i \in DOMAIN setup.bindings :
                    st[i] \in Field_new_mappers(setup.bindings[i])}
    /\ sticks = Mapper_new_sticks
    /\ snapshot = <<>>
    /\ prev_snapshot = <<>>
    /\ events = <<>>
    /\ frame_start = [state |-> state, sticks |-> sticks, sources |-> {}]
    /\ last_op = "new"
    /\ twin = Twin_new
    /\ runner = GameRunner_new
    /\ renderer = NoRenderer

RunnerNext ==
    \/ \E queue \in SeqsUpTo(setup.gilrs, MaxPolled), stops \in BOOLEAN :
            GameRunner_about_to_wait(queue, stops)
    \/ \E event \in setup.window, texture_ok \in BOOLEAN, stops \in BOOLEAN :
            GameRunner_window_event(event, texture_ok, stops)

RunnerSpec == RunnerInit /\ [][RunnerNext]_vars

\* A callback of the AppHandler returned AppFlow::Exit during the runner
\* callback that left the record r.
ExitReturned(r) == \E n \in 1..Len(r.calls) : r.calls[n].flow = "Exit"

\* ---------------------------------------------------------------------
\* C26.  Exactly one map() per rendered frame in the host loop: every
\* game.draw is preceded by exactly one game.update (hence one
\* Mapper::map) since the previous draw, for every order in which the
\* event loop delivers about_to_wait and RedrawRequested.
\* ---------------------------------------------------------------------
C26_OneUpdatePerDraw ==
    [][runner'.drew => runner.updates_since_draw = 1]_vars

StickAxis == {"LeftStickX", "LeftStickY", "RightStickX", "RightStickY"}

PositiveCode(axis) ==
    CASE axis = "LeftStickX" -> "LeftStickRight"
      [] axis = "LeftStickY" -> "LeftStickUp"
      [] axis = "RightStickX" -> "RightStickRight"
      [] axis = "RightStickY" -> "RightStickUp"

NegativeCode(axis) ==
    CASE axis = "LeftStickX" -> "LeftStickLeft"
      [] axis = "LeftStickY" -> "LeftStickDown"
      [] axis = "RightStickX" -> "RightStickLeft"
      [] axis = "RightStickY" -> "RightStickDown"

C28_AxisTranslation ==
    [][(runner'.callback = "about_to_wait" /\ ~ExitReturned(runner')) =>
            \A n \in 1..Len(runner'.polled) :
                LET p == runner'.polled[n]
                    given == runner'.dispatched[n]
                    sk == Replay([state |-> state, sticks |-> sticks],
                                 Flatten(SubSeq(runner'.dispatched, 1, n))).sticks
                IN  p.type = "AxisChanged" =>
                        /\ p.axis \in StickAxis =>
                            /\ given = <<ButtonEvent(PositiveCode(p.axis), Max(0, p.value)),
                                         ButtonEvent(NegativeCode(p.axis), Max(0, -p.value))>>
                            /\ MagnitudeOf(PositiveCode(p.axis), sk) = 0
                                    \/ MagnitudeOf(NegativeCode(p.axis), sk) = 0
                        /\ p.axis \in {"DPadX", "DPadY", "LeftZ", "RightZ"} => given = <<>>]_vars

\* A stick axis pushed to its negative side and an axis that is dropped
\* were polled in one iteration; the Mapper holds the negative magnitude.
C28_Witness ==
    /\ runner.callback = "about_to_wait"
    /\ \E n \in 1..Len(runner.polled) :
            /\ runner.polled[n].type = "AxisChanged"
            /\ runner.polled[n].axis \in {"DPadX", "DPadY", "LeftZ", "RightZ"}
            /\ runner.dispatched[n] = <<>>
    /\ LET last == runner.polled[Len(runner.polled)]
       IN  /\ last.type = "AxisChanged"
           /\ last.axis \in StickAxis
           /\ last.value < 0
           /\ MagnitudeOf(NegativeCode(last.axis), sticks) = -last.value
           /\ MagnitudeOf(PositiveCode(last.axis), sticks) = 0

\* ---------------------------------------------------------------------
\* C29.  Stick button state tracks the stick: after host-translated
\* left-stick axis changes, at every map() a Button bound only to
\* LeftStickRight has is_held equal to the cone predicate on the Mapper's
\* current magnitudes: left_stick_right >= 0.5 and the normalized
\* (right - left, up - down) has a dot product of at least 0.3827 with
\* RIGHT.
\* ---------------------------------------------------------------------
OnlyLeftStickRight(i) ==
    /\ setup.bindings[i].kind = "Button"
    /\ setup.bindings[i].keys = {}
    /\ setup.bindings[i].buttons = {"LeftStickRight"}

C29_StickButtonTracksStick ==
    runner.callback = "about_to_wait" =>
        \A i \in DOMAIN setup.bindings :
            OnlyLeftStickRight(i) =>
                (snapshot[i].is_held
                    <=> (sticks.left_stick_right >= HALF /\ InCone("LeftStickRight", sticks)))

\* ---------------------------------------------------------------------
\* C31.  The release flag is transient and consistent: in every snapshot
\* a mapping call returns, a Button's is_released implies that is_held is
\* false and that the mapping call before it returned is_held = true (the
\* Button had a held binding when the frame started, and this is not the
\* first mapping call on a fresh handler); and is_released is never true
\* in two mapping calls in a row.
\* ---------------------------------------------------------------------
ButtonLeaves == {leaf \in Leaves : LeafState(leaf).kind = "Button"}

\* What the mapping call that started the frame returned as is_held: map
\* leaves held_bindings alone, so it is read off the handler the frame
\* started with; a fresh handler has no binding held.
HeldAtFrameStart(leaf) ==
    LeafOf(frame_start.state[leaf[1]], leaf).held_bindings # NoBits

C31_ReleaseTransient ==
    Mapped =>
        \A leaf \in ButtonLeaves :
            LET button == LeafOf(snapshot[leaf[1]], leaf)
            IN  /\ button.is_released =>
                    (~button.is_held /\ HeldAtFrameStart(leaf))
                /\ MappedTwice =>
                    ~(button.is_released
                        /\ LeafOf(prev_snapshot[leaf[1]], leaf).is_released)

\* A mapping call has just reported a release that an event of its frame
\* caused.
C31_Witness ==
    /\ Mapped
    /\ events # <<>>
    /\ \E leaf \in ButtonLeaves :
        /\ LeafOf(snapshot[leaf[1]], leaf).is_released
        /\ HeldAtFrameStart(leaf)

\* ---------------------------------------------------------------------
\* C32.  A Disconnected event resets the derived stick state: right after
\* it the Mapper's 8 stick magnitudes are 0, so that the MapperContext of
\* the next event has both directions equal to the zero vector.
\* ---------------------------------------------------------------------
ZeroVector(dir) == dir.x = 0 /\ dir.y = 0

C32_DisconnectResetsSticks ==
    JustDisconnected =>
        /\ sticks = Mapper_new_sticks
        /\ ZeroVector(MapperContext(sticks).left_stick_dir)
        /\ ZeroVector(MapperContext(sticks).right_stick_dir)

\* ---------------------------------------------------------------------
\* C33.  A Disconnected event discards a pending press: when a Button's
\* press latch was set since the previous mapping call and a Disconnected
\* event is the last event before map(), that map() returns
\* is_pressed = false.
\* ---------------------------------------------------------------------
PendingPressThenDisconnected(i) ==
    /\ Mapped
    /\ JustDisconnected
    /\ ~LeafOf(frame_start.state[i], <<i, "-">>).is_pressed
    /\ BeforeLastEvent(i).is_pressed

C33_DisconnectDiscardsPress ==
    \A i \in ButtonFields :
        PendingPressThenDisconnected(i) => ~snapshot[i].is_pressed

\* C33, amended: a Disconnected event does not discard a pending press.
\* When the latch was set since the previous mapping call and a
\* Disconnected event is the last event before map(), that map() returns
\* is_pressed = true together with is_held = false.
C33_DisconnectKeepsPress ==
    \A i \in ButtonFields :
        PendingPressThenDisconnected(i) =>
            (snapshot[i].is_pressed /\ ~snapshot[i].is_held)

C33_Witness ==
    \E i \in ButtonFields :
        /\ PendingPressThenDisconnected(i)
        /\ snapshot[i].is_pressed

\* ---------------------------------------------------------------------
\* C36.  Alt+Enter fullscreen switch of the lib_app runner: a non-repeat
\* Enter press toggles fullscreen if and only if AltLeft or AltRight is
\* physically held at that moment, each Alt key being tracked on its own.
\* ---------------------------------------------------------------------
C36_AltEnterTogglesFullscreen ==
    [][runner'.handled = KeyboardInput("Enter", TRUE, FALSE) =>
            ((runner'.fullscreen # runner.fullscreen) <=> (runner.held_alts # {}))]_vars

\* ---------------------------------------------------------------------
\* C34.  Exit is final in the lib_app runner: once an AppHandler callback
\* has returned AppFlow::Exit, the runner calls no AppHandler callback any
\* more, neither later in the same event-loop callback (an Exit is the
\* last call of its callback) nor in a later one.
\* ---------------------------------------------------------------------
C34_ExitIsFinal ==
    [][/\ runner.exited => runner'.calls = <<>>
       /\ \A n \in 1..(Len(runner'.calls) - 1) : runner'.calls[n].flow # "Exit"]_vars

\* ---------------------------------------------------------------------
\* The older runner (src/game/context.rs) around the Game of
\* src/game/game.rs.  Of the Game the InputHandler and the FsSwitch are
\* kept; its clock and the position it integrates are not.
\* ---------------------------------------------------------------------
\* FsSwitch::new, with the fullscreen state of the window it switches.
FsSwitch_new ==
    [alt_left_is_held |-> FALSE, alt_right_is_held |-> FALSE,
     enter_is_held |-> FALSE, numpad_enter_is_held |-> FALSE,
     fullscreen |-> FALSE]

\* FsSwitch::event
FsSwitch_event(self, event) ==
    IF event.type # "Key" THEN self
    ELSE CASE event.key = "AltLeft" -> [self EXCEPT !.alt_left_is_held = event.pressed]
           [] event.key = "AltRight" -> [self EXCEPT !.alt_right_is_held = event.pressed]
           [] event.key = "Enter" ->
                [self EXCEPT
                    !.fullscreen = IF event.pressed /\ ~self.enter_is_held THEN ~@ ELSE @,
                    !.enter_is_held = event.pressed]
           [] event.key = "NumpadEnter" ->
                [self EXCEPT
                    !.fullscreen =
                        IF event.pressed /\ ~self.numpad_enter_is_held THEN ~@ ELSE @,
                    !.numpad_enter_is_held = event.pressed]
           [] OTHER -> self

\* Game::event with the calls of the runner callback so far: the
\* fullscreen switch, the InputHandler, and ctx.exit() for CloseRequested
\* (and, for a Game that ends on a gamepad button, for the events of
\* setup.exit_on).
DrillGame_event(g, event) ==
    LET input == InputHandler_event_result(g.state, g.sticks, event)
    IN  [g EXCEPT
            !.fs_switch = FsSwitch_event(@, event),
            !.state = input.state,
            !.sticks = input.sticks,
            !.should_exit = @ \/ event.type = "CloseRequested" \/ event \in setup.exit_on,
            !.calls = Append(@, "event")]

RECURSIVE DrillGame_events(_, _)
DrillGame_events(g, evs) ==
    IF evs = <<>> THEN g
    ELSE DrillGame_events(DrillGame_event(g, Head(evs)), Tail(evs))

\* The GameEvents that handle_gilrs_events makes of one gilrs event.
GameEventsOf(event) ==
    CASE event.type = "AxisChanged" ->
            LET codes ==
                    CASE event.axis = "LeftStickX" -> <<"LeftStickRight", "LeftStickLeft">>
                      [] event.axis = "LeftStickY" -> <<"LeftStickUp", "LeftStickDown">>
                      [] event.axis = "RightStickX" -> <<"RightStickRight", "RightStickLeft">>
                      [] event.axis = "RightStickY" -> <<"RightStickUp", "RightStickDown">>
                      [] event.axis = "Unknown" -> <<"Unknown", "Unknown">>
                      [] OTHER -> <<>>
            IN  IF codes = <<>>
                THEN <<>>
                ELSE <<ButtonEvent(codes[1], Max(event.value, 0)),
                       ButtonEvent(codes[2], Max(-event.value, 0))>>
      [] event.type = "ButtonChanged" -> <<ButtonEvent(event.button, event.value)>>
      [] OTHER -> <<>>

\* InitRunner::handle_gilrs_events: the whole queue goes to game.event;
\* after the loop, if ctx.exit() was called, game.end and event_loop.exit().
handle_gilrs_events(g, queue) ==
    LET after == DrillGame_events(
                    g, Flatten([n \in 1..Len(queue) |-> GameEventsOf(queue[n])]))
    IN  IF after.should_exit
        THEN [after EXCEPT !.calls = Append(@, "end")]
        ELSE after

\* InitRunner::new, and the record of the last callback.
InitRunner_new ==
    [callback |-> "new",
     fs_switch |-> FsSwitch_new,
     exited |-> FALSE,              \* event_loop.exit() has been called
     stopped |-> FALSE,             \* the event loop delivers nothing more
     requested |-> FALSE,           \* ctx.exit() was called in the last callback
     calls |-> <<>>]                \* the calls on the Game in the last callback

\* The Game as the callback finds it.
GameNow ==
    [state |-> state, sticks |-> sticks, fs_switch |-> runner.fs_switch,
     should_exit |-> FALSE, calls |-> <<>>]

\* InitRunner::about_to_wait: handle_gilrs_events, then game.update (which
\* is InputHandler::next_state), then game.end and event_loop.exit() if
\* update called ctx.exit(), else window.request_redraw().
InitRunner_about_to_wait(queue, stops) ==
    LET polled == handle_gilrs_events(GameNow, queue)
        exits == polled.should_exit \/ setup.exit_in_update
    IN  /\ ~runner.stopped
        /\ state' = [i \in DOMAIN state |-> FieldHandler_next_state_self(polled.state[i])]
        /\ sticks' = polled.sticks
        /\ snapshot' = [i \in DOMAIN state |-> FieldHandler_next_state_result(polled.state[i])]
        /\ last_op' = "map"
        /\ runner' = [runner EXCEPT
                        !.callback = "about_to_wait",
                        !.fs_switch = polled.fs_switch,
                        !.requested = exits,
                        !.calls = polled.calls \o <<"update">>
                                    \o (IF setup.exit_in_update THEN <<"end">> ELSE <<>>),
                        !.exited = @ \/ exits,
                        !.stopped = (runner.exited \/ exits) /\ stops]
        /\ UNCHANGED <<setup, events, frame_start, prev_snapshot, twin, renderer>>

\* InitRunner::window_event: game.event with the translated event, game.end
\* and event_loop.exit() if it called ctx.exit(); else, on RedrawRequested,
\* game.render if the surface gives a texture.
InitRunner_window_event(event, texture_ok, stops) ==
    LET game_event ==
            CASE event.type = "CloseRequested" -> <<CloseRequested>>
              [] event.type = "KeyboardInput" -> <<event.event>>
              [] OTHER -> <<>>
        after == DrillGame_events(GameNow, game_event)
        renders == ~after.should_exit /\ event.type = "RedrawRequested" /\ texture_ok
    IN  /\ ~runner.stopped
        /\ event.type = "RedrawRequested" \/ texture_ok
        /\ state' = after.state
        /\ sticks' = after.sticks
        /\ last_op' = IF game_event = <<>> THEN last_op ELSE "event"
        /\ runner' = [runner EXCEPT
                        !.callback = "window_event",
                        !.fs_switch = after.fs_switch,
                        !.requested = after.should_exit,
                        !.calls = after.calls
                                    \o (IF after.should_exit THEN <<"end">> ELSE <<>>)
                                    \o (IF renders THEN <<"render">> ELSE <<>>),
                        !.exited = @ \/ after.should_exit,
                        !.stopped = (runner.exited \/ after.should_exit) /\ stops]
        /\ UNCHANGED <<setup, snapshot, events, frame_start, prev_snapshot, twin, renderer>>

\* The Games the older runner drives: drill's, one that calls ctx.exit()
\* for the Start button, and one that calls it in update as well.
ContextSetups ==
    { [iteration |-> "handlers",
       bindings |-> << ButtonBindings({"Space"}, {"South"}) >>,
       window |-> {KeyboardInput("Space", TRUE, FALSE), KeyboardInput("Space", FALSE, FALSE),
                   KeyboardInput("Enter", TRUE, FALSE), KeyboardInput("Enter", FALSE, FALSE),
                   WindowCloseRequested, RedrawRequested},
       gilrs |-> {ButtonChanged("South", 1000), AxisChanged("LeftStickX", 1000)},
       exit_on |-> {},
       exit_in_update |-> FALSE],
      [iteration |-> "handlers",
       bindings |-> << ButtonBindings({}, {"South"}) >>,
       window |-> {RedrawRequested, Focused},
       gilrs |-> {ButtonChanged("South", 1000), ButtonChanged("Start", 1000), GilrsDropped},
       exit_on |-> {ButtonEvent("Start", 1000)},
       exit_in_update |-> FALSE],
      [iteration |-> "handlers",
       bindings |-> << ButtonBindings({"Space"}, {}) >>,
       window |-> {KeyboardInput("Space", TRUE, FALSE), RedrawRequested},
       gilrs |-> {ButtonChanged("South", 1000), ButtonChanged("Start", 1000)},
       exit_on |-> {ButtonEvent("Start", 1000)},
       exit_in_update |-> TRUE] }

\* resumed: InitRunner::new with the Game's InputHandler::new.
ContextInit ==
    /\ setup \in ContextSetups
    /\ state \in
            {st \in [DOMAIN setup.bindings ->
                        UNION {FieldHandler_news(setup.bindings[i]) :
                               i \in DOMAIN setup.bindings}] :
                \A i \in DOMAIN setup.bindings :
                    st[i] \in FieldHandler_news(setup.bindings[i])}
    /\ sticks = StickHandler_new
    /\ snapshot = <<>>
    /\ prev_snapshot = <<>>
    /\ events = <<>>
    /\ frame_start = [state |-> state, sticks |-> sticks, sources |-> {}]
    /\ last_op = "new"
    /\ twin = Twin_new
    /\ runner = InitRunner_new
    /\ renderer = NoRenderer

ContextNext ==
    \/ \E queue \in SeqsUpTo(setup.gilrs, MaxPolled), stops \in BOOLEAN :
            InitRunner_about_to_wait(queue, stops)
    \/ \E event \in setup.window, texture_ok \in BOOLEAN, stops \in BOOLEAN :
            InitRunner_window_event(event, texture_ok, stops)

ContextSpec == ContextInit /\ [][ContextNext]_vars

\* ---------------------------------------------------------------------
\* C35.  Game::end is the last call in the older runner: after ctx.exit()
\* is requested during Game::event or Game::update, Game::end is called
\* exactly once and no Game::event, Game::update or Game::render is called
\* after it, in the same callback or in a later one, also when the exit
\* is requested while handle_gilrs_events drains the gamepad events.
\* ---------------------------------------------------------------------
C35_EndIsLast ==
    [][/\ runner.exited => runner'.calls = <<>>
       /\ runner'.requested => \E n \in 1..Len(runner'.calls) : runner'.calls[n] = "end"
       /\ \A n \in 1..(Len(runner'.calls) - 1) : runner'.calls[n] # "end"]_vars

\* ---------------------------------------------------------------------
\* lib_renderer: QuadBuffer, QuadBufferSlice, DynQuadBuffer; and the
\* RenderBuffer of the older renderer
\* ---------------------------------------------------------------------
\* The largest buffer, and the most quads pushed in one run.
MaxCap == 3
MaxQuads == 4

\* std::ops::Bound and a range given by its two bounds.
Unbounded == [kind |-> "Unbounded", n |-> 0]
Included(n) == [kind |-> "Included", n |-> n]
Excluded(n) == [kind |-> "Excluded", n |-> n]
RangeOf(start_bound, end_bound) == [start_bound |-> start_bound, end_bound |-> end_bound]

\* A failed assert!.
PanicSlice == [panic |-> TRUE]

\* QuadBuffer::slice of a buffer of len quads: both `start` and `end` are
\* matched on range.start_bound().
QuadBuffer_slice(len, range) ==
    LET start == CASE range.start_bound.kind = "Included" -> range.start_bound.n
                   [] range.start_bound.kind = "Excluded" -> range.start_bound.n + 1
                   [] range.start_bound.kind = "Unbounded" -> 0
        end == CASE range.start_bound.kind = "Included" -> range.start_bound.n + 1
                 [] range.start_bound.kind = "Excluded" -> range.start_bound.n
                 [] range.start_bound.kind = "Unbounded" -> len
    IN  IF end <= len
        THEN [panic |-> FALSE, start |-> start, end |-> end]
        ELSE PanicSlice

\* QuadBufferSlice::len
QuadBufferSlice_len(self) == self.end - self.start

\* QuadBufferSlice::slice
QuadBufferSlice_slice(self, range) ==
    LET start == CASE range.start_bound.kind = "Included" -> range.start_bound.n
                   [] range.start_bound.kind = "Excluded" -> range.start_bound.n + 1
                   [] range.start_bound.kind = "Unbounded" -> 0
        end == CASE range.start_bound.kind = "Included" -> range.start_bound.n + 1
                 [] range.start_bound.kind = "Excluded" -> range.start_bound.n
                 [] range.start_bound.kind = "Unbounded" -> QuadBufferSlice_len(self)
    IN  IF end <= QuadBufferSlice_len(self)
        THEN [panic |-> FALSE, start |-> self.start + start, end |-> self.start + end]
        ELSE PanicSlice

\* RenderBuffer::slice of a buffer of len quads.
RenderBuffer_slice(len, range) ==
    LET start == CASE range.start_bound.kind = "Included" -> range.start_bound.n
                   [] range.start_bound.kind = "Excluded" -> range.start_bound.n + 1
                   [] range.start_bound.kind = "Unbounded" -> 0
        end == CASE range.start_bound.kind = "Included" -> range.start_bound.n + 1
                 [] range.start_bound.kind = "Excluded" -> range.start_bound.n
                 [] range.start_bound.kind = "Unbounded" -> len
    IN  IF start <= end /\ end <= len
        THEN [panic |-> FALSE, start |-> start, len |-> end - start]
        ELSE PanicSlice

\* RenderBufferSlice::slice
RenderBufferSlice_slice(self, range) ==
    LET start == CASE range.start_bound.kind = "Included" -> range.start_bound.n
                   [] range.start_bound.kind = "Excluded" -> range.start_bound.n + 1
                   [] range.start_bound.kind = "Unbounded" -> 0
        end == CASE range.start_bound.kind = "Included" -> range.start_bound.n + 1
                 [] range.start_bound.kind = "Excluded" -> range.start_bound.n
                 [] range.start_bound.kind = "Unbounded" -> self.len
    IN  IF start <= end /\ end <= self.len
        THEN [panic |-> FALSE, start |-> self.start + start, len |-> end - start]
        ELSE PanicSlice

\* QuadBufferSlice::write: the quads go to the GPU buffer from the start of
\* the slice on.
QuadBufferSlice_write(gpu, self, quads) ==
    [i \in 1..Len(gpu) |->
        IF i > self.start /\ i <= self.start + Len(quads)
        THEN quads[i - self.start]
        ELSE gpu[i]]

\* QuadBuffer::write
QuadBuffer_write(gpu, quads) ==
    QuadBufferSlice_write(gpu, QuadBuffer_slice(Len(gpu), RangeOf(Unbounded, Unbounded)), quads)

\* RendererFrame::render: what the draw call takes from the GPU buffer, one
\* instance per quad of the slice.
RendererFrame_render(gpu, quads) == SubSeq(gpu, quads.start + 1, quads.end)

\* The record of a slice call: what was sliced (the extent of the buffer
\* or of the parent slice), the range asked for, and what was returned.
Sliced(of, start, end, range, result) ==
    [of |-> of, start |-> start, end |-> end, range |-> range, result |-> result]
NoSlice == Sliced("-", 0, 0, RangeOf(Unbounded, Unbounded), PanicSlice)

\* DynQuadBuffer::new(cap): a zeroed GPU buffer of cap quads and an empty
\* Vec; no frame yet.
DynQuadBuffer_new(cap) ==
    [op |-> "new",
     gpu |-> [i \in 1..cap |-> 0],
     vec |-> <<>>,
     in_frame |-> FALSE,            \* a DynQuadBufferFrame is alive
     made |-> 0,                    \* the quads pushed so far: quad n is the n-th
     pushed |-> <<>>,               \* the quads pushed in the frame
     rendered |-> <<>>,             \* the quads the frame's draw calls took
     sliced |-> NoSlice]

\* DynQuadBuffer::start_frame
DynQuadBuffer_start_frame ==
    /\ ~renderer.in_frame
    /\ renderer' = [renderer EXCEPT
                        !.op = "start_frame",
                        !.vec = <<>>,
                        !.in_frame = TRUE,
                        !.pushed = <<>>,
                        !.rendered = <<>>]
    /\ UNCHANGED <<setup, state, sticks, snapshot, prev_snapshot, events, frame_start,
                   last_op, twin, runner>>

\* DynQuadBufferFrame::push of the next quad.
DynQuadBufferFrame_push ==
    LET quad == renderer.made + 1
        vec == Append(renderer.vec, quad)
        len == Len(renderer.gpu)
        gpu == QuadBuffer_write(renderer.gpu, vec)
        all == QuadBuffer_slice(len, RangeOf(Unbounded, Unbounded))
    IN  /\ renderer.in_frame
        /\ renderer.made < MaxQuads
        /\ renderer' =
            IF Len(vec) >= len
            THEN [renderer EXCEPT
                    !.op = "push",
                    !.made = quad,
                    !.pushed = Append(@, quad),
                    !.gpu = gpu,
                    !.vec = <<>>,
                    !.rendered = @ \o RendererFrame_render(gpu, all),
                    !.sliced = Sliced("QuadBuffer", 0, len, RangeOf(Unbounded, Unbounded), all)]
            ELSE [renderer EXCEPT
                    !.op = "push",
                    !.made = quad,
                    !.pushed = Append(@, quad),
                    !.vec = vec]
        /\ UNCHANGED <<setup, state, sticks, snapshot, prev_snapshot, events, frame_start,
                       last_op, twin, runner>>

\* Drop of the DynQuadBufferFrame.
DynQuadBufferFrame_drop ==
    LET len == Len(renderer.gpu)
        gpu == QuadBuffer_write(renderer.gpu, renderer.vec)
        range == RangeOf(Unbounded, Excluded(Len(renderer.vec)))
        rest == QuadBuffer_slice(len, range)
    IN  /\ renderer.in_frame
        /\ renderer' =
            IF renderer.vec # <<>>
            THEN [renderer EXCEPT
                    !.op = "drop",
                    !.in_frame = FALSE,
                    !.gpu = gpu,
                    !.rendered = @ \o RendererFrame_render(gpu, rest),
                    !.sliced = Sliced("QuadBuffer", 0, len, range, rest)]
            ELSE [renderer EXCEPT !.op = "drop", !.in_frame = FALSE]
        /\ UNCHANGED <<setup, state, sticks, snapshot, prev_snapshot, events, frame_start,
                       last_op, twin, runner>>

\* The ranges an application slices with: a.., ..b, a..b, a..=b and `..`.
Ranges ==
    {RangeOf(s, e) :
        s \in {Unbounded} \cup {Included(n) : n \in 0..MaxCap},
        e \in {Unbounded} \cup {Excluded(n) : n \in 0..MaxCap}
                \cup {Included(n) : n \in 0..MaxCap}}

\* slice(range) of a QuadBuffer as long as the DynQuadBuffer's.  Slices
\* are taken between frames: the DynQuadBufferFrame borrows its buffer.
QuadBuffer_slice_call(range) ==
    LET len == Len(renderer.gpu)
    IN  /\ ~renderer.in_frame
        /\ renderer' = [renderer EXCEPT
                !.op = "slice",
                !.sliced = Sliced("QuadBuffer", 0, len, range, QuadBuffer_slice(len, range))]
        /\ UNCHANGED <<setup, state, sticks, snapshot, prev_snapshot, events, frame_start,
                       last_op, twin, runner>>

\* slice(range) of the QuadBufferSlice the last call returned.
QuadBufferSlice_slice_call(range) ==
    LET last == renderer.sliced
    IN  /\ ~renderer.in_frame
        /\ last.of = "QuadBuffer"
        /\ ~last.result.panic
        /\ renderer' = [renderer EXCEPT
                !.op = "slice",
                !.sliced = Sliced("QuadBufferSlice", last.result.start, last.result.end,
                                  range, QuadBufferSlice_slice(last.result, range))]
        /\ UNCHANGED <<setup, state, sticks, snapshot, prev_snapshot, events, frame_start,
                       last_op, twin, runner>>

\* slice(range) of a RenderBuffer of that length.
RenderBuffer_slice_call(range) ==
    LET len == Len(renderer.gpu)
    IN  /\ ~renderer.in_frame
        /\ renderer' = [renderer EXCEPT
                !.op = "slice",
                !.sliced = Sliced("RenderBuffer", 0, len, range,
                                  RenderBuffer_slice(len, range))]
        /\ UNCHANGED <<setup, state, sticks, snapshot, prev_snapshot, events, frame_start,
                       last_op, twin, runner>>

\* slice(range) of the RenderBufferSlice the last call returned.
RenderBufferSlice_slice_call(range) ==
    LET last == renderer.sliced
    IN  /\ ~renderer.in_frame
        /\ last.of = "RenderBuffer"
        /\ ~last.result.panic
        /\ renderer' = [renderer EXCEPT
                !.op = "slice",
                !.sliced = Sliced("RenderBufferSlice", last.result.start,
                                  last.result.start + last.result.len, range,
                                  RenderBufferSlice_slice(last.result, range))]
        /\ UNCHANGED <<setup, state, sticks, snapshot, prev_snapshot, events, frame_start,
                       last_op, twin, runner>>

\* The renderer alone: nothing of the input code runs.
BufferInit ==
    /\ setup = [iteration |-> "lib_renderer"]
    /\ state = <<>>
    /\ sticks = Mapper_new_sticks
    /\ snapshot = <<>>
    /\ prev_snapshot = <<>>
    /\ events = <<>>
    /\ frame_start = [state |-> <<>>, sticks |-> Mapper_new_sticks, sources |-> {}]
    /\ last_op = "new"
    /\ twin = [state |-> <<>>, snapshot |-> <<>>]
    /\ runner = NoRunner
    /\ renderer \in {DynQuadBuffer_new(cap) : cap \in 1..MaxCap}

BufferNext ==
    \/ DynQuadBuffer_start_frame
    \/ DynQuadBufferFrame_push
    \/ DynQuadBufferFrame_drop
    \/ \E range \in Ranges : QuadBuffer_slice_call(range)
    \/ \E range \in Ranges : QuadBufferSlice_slice_call(range)
    \/ \E range \in Ranges : RenderBuffer_slice_call(range)
    \/ \E range \in Ranges : RenderBufferSlice_slice_call(range)

BufferSpec == BufferInit /\ [][BufferNext]_vars

\* ---------------------------------------------------------------------
\* C37.  Buffer slicing honours both bounds of the range: slice(a..b) of
\* a QuadBuffer, a QuadBufferSlice, a RenderBuffer or a RenderBufferSlice
\* starts at element a of what is sliced and ends before element b, an
\* unbounded start meaning 0 and an unbounded end meaning the length; so
\* slice(..n) has length n and slice(a..b) has length b - a.
\* ---------------------------------------------------------------------
LowerOf(range) ==
    CASE range.start_bound.kind = "Included" -> range.start_bound.n
      [] range.start_bound.kind = "Excluded" -> range.start_bound.n + 1
      [] range.start_bound.kind = "Unbounded" -> 0

UpperOf(range, len) ==
    CASE range.end_bound.kind = "Included" -> range.end_bound.n + 1
      [] range.end_bound.kind = "Excluded" -> range.end_bound.n
      [] range.end_bound.kind = "Unbounded" -> len

C37_SliceHonoursBounds ==
    LET s == renderer.sliced
        lower == LowerOf(s.range)
        upper == UpperOf(s.range, s.end - s.start)
    IN  (s.of # "-" /\ lower <= upper /\ upper <= s.end - s.start) =>
            /\ ~s.result.panic
            /\ s.result.start = s.start + lower
            /\ IF s.of \in {"QuadBuffer", "QuadBufferSlice"}
               THEN /\ s.result.end = s.start + upper
                    /\ QuadBufferSlice_len(s.result) = upper - lower
               ELSE s.result.len = upper - lower

\* ---------------------------------------------------------------------
\* C38.  Dynamic quad batching renders each quad exactly once: while the
\* frame is alive the draw calls have taken the full batches of cap quads
\* pushed so far, and once the DynQuadBufferFrame is dropped they have
\* taken every pushed quad exactly once and in push order, and nothing
\* else that the GPU buffer held.
\* ---------------------------------------------------------------------
C38_EachQuadRenderedOnce ==
    /\ renderer.op = "push" =>
            renderer.rendered =
                SubSeq(renderer.pushed, 1, Len(renderer.pushed) - Len(renderer.vec))
    /\ renderer.op = "drop" => renderer.rendered = renderer.pushed

====
